---- MODULE Spec2Model ----
(***************************************************************************)
(* A model of the soft-body simulation of mpersano/hell: world.cpp (the    *)
(* bowl variant, the one the Makefile builds), with vec2.h.                *)
(*                                                                         *)
(* Numbers.  The program computes in `float'.  Here every float is a       *)
(* fixed-point integer counting units of 1/SCALE ("ulps"); a unit normal   *)
(* is kept at the finer resolution 1/NSCALE.  Every arithmetic result is   *)
(* rounded to the nearest ulp, as IEEE rounds to the nearest float.  The   *)
(* tolerance EPSILON = 1e-5 is kept as the exact rational 1/EPSILON_INV.   *)
(*                                                                         *)
(* References.  A `vec2&' held by a spring or a quad is the address of a   *)
(* body's position: <<owner, index>>, the piece object that owns the body  *)
(* sequence and the index in it.  Piece objects live in `heap'.            *)
(***************************************************************************)
EXTENDS Integers, Sequences, FiniteSets, TLC

\* ------------------------------------------------------------------ bounds

\* ulps per unit of length
SCALE == 100
\* world_impl(width, height): the constructor's arguments
WorldWidth == 100
WorldHeight == 0
\* update() calls modelled
MaxTicks == 61
\* a spawn is offered MaxDraw+1 pairs of rand() results
MaxDraw == 2

\* ------------------------------------------------------- program constants

GRAVITY == SCALE
DAMPING_NUM == 3
DAMPING_DEN == 4
FRICTION_NUM == 3
FRICTION_DEN == 5
EPSILON_INV == 100000
SPAWN_INTERVAL == 30
BLOCK_SIZE == 20
MAX_PIECE_ROWS == 4
MAX_PIECE_COLS == 4
NUM_ITERATIONS == 30

NSCALE == SCALE * SCALE

\* ------------------------------------------------------------- arithmetic

\* F(v), the value v being computed once and then handed to F
Bind(v, F(_)) == CHOOSE r \in {F(x) : x \in {v}} : TRUE

Abs(a) == IF a < 0 THEN -a ELSE a

Min2(a, b) == IF b < a THEN b ELSE a

Max2(a, b) == IF a < b THEN b ELSE a

\* a/b rounded to the nearest integer (b > 0), halves away from zero
RoundDiv(a, b) ==
    IF a >= 0 THEN (2 * a + b) \div (2 * b) ELSE -((2 * (-a) + b) \div (2 * b))

RECURSIVE SqrtIter(_, _)
SqrtIter(n, x) ==
    Bind((x + n \div x) \div 2, LAMBDA y : IF y >= x THEN x ELSE SqrtIter(n, y))

\* sqrtf: the square root rounded to the nearest integer
Sqrt(n) ==
    IF n < 2 THEN n
    ELSE Bind(SqrtIter(n, IF n < 4096 THEN 64 ELSE IF n < 1048576 THEN 1024 ELSE 46341),
              LAMBDA r : IF n - r * r > r THEN r + 1 ELSE r)

\* a < b + EPSILON, a and b in ulps
LtPlusEps(a, b) == a <= b \/ (a - b < SCALE /\ (a - b) * EPSILON_INV < SCALE)

\* variant of GtEps: the threshold is one unit of length
GtEps_WholeUnit(l, unit) == l > unit

\* fabs(l) > EPSILON, for a length l >= 0 counted in 1/unit
GtEps(l, unit) == l > unit \div EPSILON_INV

\* ------------------------------------------------------------------- vec2

Vec(x, y) == [x |-> x, y |-> y]

VAdd(a, b) == Vec(a.x + b.x, a.y + b.y)

VSub(a, b) == Vec(a.x - b.x, a.y - b.y)

VNeg(a) == Vec(-a.x, -a.y)

length_squared(v) == v.x * v.x + v.y * v.y

length(v) == Sqrt(length_squared(v))

\* vec2::normalize on a vector counted in 1/unit: a vector that is scaled
\* comes out in units of 1/NSCALE, one that is left alone stays as it is
normalize_in(v, unit) ==
    LET l == length(v)
    IN IF GtEps(l, unit)
       THEN [unit |-> NSCALE, x |-> RoundDiv(v.x * NSCALE, l),
                              y |-> RoundDiv(v.y * NSCALE, l)]
       ELSE [unit |-> unit, x |-> v.x, y |-> v.y]

\* vec2::normalize on a vector in ulps; the result is in units of 1/NSCALE
normalize(v) ==
    LET r == normalize_in(v, SCALE)
    IN Vec(r.x * (NSCALE \div r.unit), r.y * (NSCALE \div r.unit))

\* vec2::dot of a normal (1/NSCALE) with a position (ulps), in ulps
dot(n, p) == RoundDiv(n.x * p.x + n.y * p.y, NSCALE)

\* ------------------------------------------------------- bodies and pieces

\* body::body(position)
Body(position) == [position |-> position, prev_position |-> position]

\* the address of bodies_[idx].position of the piece object `own'
Ref(own, idx) == <<own, idx>>

\* spring::spring(p0, p1), the referents' positions being v0 and v1
Spring(r0, r1, v0, v1) ==
    [p0 |-> r0, p1 |-> r1, rest_length |-> length(VSub(v0, v1))]

\* quad::quad(p0, .., p3) (the texture coordinates are left out)
Quad(r0, r1, r2, r3) == <<r0, r1, r2, r3>>

RECURSIVE BoxFold(_, _, _, _)
BoxFold(bodies, i, lo, hi) ==
    IF i > Len(bodies) THEN [min_pos |-> lo, max_pos |-> hi]
    ELSE LET p == bodies[i].position
         IN Bind(<<Vec(Min2(lo.x, p.x), Min2(lo.y, p.y)),
                   Vec(Max2(hi.x, p.x), Max2(hi.y, p.y))>>,
                 LAMBDA b : BoxFold(bodies, i + 1, b[1], b[2]))

\* piece::update_bounding_box: the box of a body sequence
BoundingBox(bodies) ==
    BoxFold(bodies, 2, bodies[1].position, bodies[1].position)

\* variant of update_bounding_box: only max_pos_ is recomputed
update_bounding_box_KeepsMin(p) ==
    [p EXCEPT !.max_pos = BoundingBox(p.bodies).max_pos]

update_bounding_box(p) ==
    LET b == BoundingBox(p.bodies)
    IN [p EXCEPT !.min_pos = b.min_pos, !.max_pos = b.max_pos]

\* ----------------------------------------------- piece::piece(pattern)

\* variant of Patterns: a catalog whose first pattern has no filled cell
Patterns_FirstBlank ==
    << << <<" ", " ", " ", " ">>,
          <<" ", " ", " ", " ">>,
          <<" ", " ", " ", " ">>,
          <<" ", " ", " ", " ">> >>,
       << <<" ", "#", " ", " ">>,
          <<" ", "#", " ", " ">>,
          <<" ", "#", " ", " ">>,
          <<" ", "#", " ", " ">> >>,
       << <<" ", "#", " ", " ">>,
          <<" ", "#", " ", " ">>,
          <<" ", "#", "#", " ">>,
          <<" ", " ", " ", " ">> >>,
       << <<" ", " ", "#", " ">>,
          <<" ", " ", "#", " ">>,
          <<" ", "#", "#", " ">>,
          <<" ", " ", " ", " ">> >>,
       << <<" ", "#", " ", " ">>,
          <<" ", "#", "#", " ">>,
          <<" ", "#", " ", " ">>,
          <<" ", " ", " ", " ">> >>,
       << <<" ", "#", " ", " ">>,
          <<" ", "#", "#", " ">>,
          <<" ", " ", "#", " ">>,
          <<" ", " ", " ", " ">> >>,
       << <<" ", " ", "#", " ">>,
          <<" ", "#", "#", " ">>,
          <<" ", "#", " ", " ">>,
          <<" ", " ", " ", " ">> >> >>

\* the pattern catalog of piece_factory::piece_factory
Patterns ==
    << << <<" ", " ", " ", " ">>,
          <<" ", "#", "#", " ">>,
          <<" ", "#", "#", " ">>,
          <<" ", " ", " ", " ">> >>,
       << <<" ", "#", " ", " ">>,
          <<" ", "#", " ", " ">>,
          <<" ", "#", " ", " ">>,
          <<" ", "#", " ", " ">> >>,
       << <<" ", "#", " ", " ">>,
          <<" ", "#", " ", " ">>,
          <<" ", "#", "#", " ">>,
          <<" ", " ", " ", " ">> >>,
       << <<" ", " ", "#", " ">>,
          <<" ", " ", "#", " ">>,
          <<" ", "#", "#", " ">>,
          <<" ", " ", " ", " ">> >>,
       << <<" ", "#", " ", " ">>,
          <<" ", "#", "#", " ">>,
          <<" ", "#", " ", " ">>,
          <<" ", " ", " ", " ">> >>,
       << <<" ", "#", " ", " ">>,
          <<" ", "#", "#", " ">>,
          <<" ", " ", "#", " ">>,
          <<" ", " ", " ", " ">> >>,
       << <<" ", " ", "#", " ">>,
          <<" ", "#", "#", " ">>,
          <<" ", "#", " ", " ">>,
          <<" ", " ", " ", " ">> >> >>

\* bodies_.reserve((MAX_PIECE_ROWS + 1)*(MAX_PIECE_COLS + 1))
ReservedBodies == (MAX_PIECE_ROWS + 1) * (MAX_PIECE_COLS + 1)

\* where world.cpp's constructor puts the bodies, and the capacity it reserves
WorldGrid ==
    [origin |-> Vec(0, 0), spacing |-> BLOCK_SIZE * SCALE, reserve |-> ReservedBodies]

\* variant of EmptyBuild: a constructor without the reserve call
EmptyBuild_NoReserve(grid) ==
    [bodies |-> <<>>, body_map |-> <<>>, springs |-> <<>>,
     spring_set |-> {}, quads |-> <<>>,
     capacity |-> 0, reallocated |-> FALSE]

\* the constructor's locals before the first cell; capacity is that of
\* bodies_, reallocated tells whether a push_back has moved the bodies
EmptyBuild(grid) ==
    [bodies |-> <<>>, body_map |-> <<>>, springs |-> <<>>,
     spring_set |-> {}, quads |-> <<>>,
     capacity |-> grid.reserve, reallocated |-> FALSE]

\* the lambda add_body: st.body_map is the std::map as a sequence of
\* <<key, index>> entries
BodyMapFind(st, key) == {e \in 1..Len(st.body_map) : st.body_map[e][1] = key}

add_body(st, i, j, grid) ==
    IF BodyMapFind(st, <<i, j>>) # {} THEN st
    ELSE [st EXCEPT
            !.bodies = Append(@, Body(Vec(grid.origin.x + j * grid.spacing,
                                          grid.origin.y + i * grid.spacing))),
            !.body_map = Append(@, <<(<<i, j>>), Len(st.bodies) + 1>>),
            !.capacity = IF Len(st.bodies) < @ THEN @ ELSE Max2(1, 2 * @),
            !.reallocated = @ \/ Len(st.bodies) >= st.capacity]

BodyOf(st, i, j) ==
    st.body_map[CHOOSE e \in BodyMapFind(st, <<i, j>>) : TRUE][2]

\* variant of add_spring: only the pair (b0, b1) is looked up
add_spring_OneOrder(st, self, b0, b1) ==
    IF <<b0, b1>> \in st.spring_set THEN st
    ELSE [st EXCEPT
            !.springs = Append(@, Spring(Ref(self, b0), Ref(self, b1),
                                         st.bodies[b0].position,
                                         st.bodies[b1].position)),
            !.spring_set = @ \cup {<<b0, b1>>}]

\* the lambda add_spring
add_spring(st, self, b0, b1) ==
    IF <<b0, b1>> \in st.spring_set \/ <<b1, b0>> \in st.spring_set THEN st
    ELSE [st EXCEPT
            !.springs = Append(@, Spring(Ref(self, b0), Ref(self, b1),
                                         st.bodies[b0].position,
                                         st.bodies[b1].position)),
            !.spring_set = @ \cup {<<b0, b1>>}]

\* the four add_body calls of a filled cell (i, j)
AddBodies(st, i, j, grid) ==
    Bind(add_body(st, i, j, grid), LAMBDA s1 :
    Bind(add_body(s1, i, j + 1, grid), LAMBDA s2 :
    Bind(add_body(s2, i + 1, j + 1, grid), LAMBDA s3 :
    add_body(s3, i + 1, j, grid))))

\* the add_spring calls of a cell, in order
RECURSIVE AddSprings(_, _, _, _)
AddSprings(st, self, ends, n) ==
    IF n > Len(ends) THEN st
    ELSE Bind(add_spring(st, self, ends[n][1], ends[n][2]),
              LAMBDA s : AddSprings(s, self, ends, n + 1))

\* the loop body for a filled cell (i, j)
AddCell(st, self, i, j, grid) ==
    Bind(AddBodies(st, i, j, grid), LAMBDA s4 :
    Bind(<<BodyOf(s4, i, j), BodyOf(s4, i, j + 1),
           BodyOf(s4, i + 1, j + 1), BodyOf(s4, i + 1, j)>>, LAMBDA b :
    Bind(AddSprings(s4, self,
                    << <<b[1], b[2]>>, <<b[2], b[3]>>, <<b[3], b[4]>>,
                       <<b[4], b[1]>>, <<b[1], b[3]>>, <<b[2], b[4]>> >>, 1),
         LAMBDA s10 :
           [s10 EXCEPT
              !.quads = Append(@, Quad(Ref(self, b[1]), Ref(self, b[2]),
                                       Ref(self, b[3]), Ref(self, b[4])))])))

\* the two nested loops, cell c = i*MAX_PIECE_COLS + j
RECURSIVE BuildCells(_, _, _, _, _)
BuildCells(st, self, pattern, c, grid) ==
    IF c >= MAX_PIECE_ROWS * MAX_PIECE_COLS THEN st
    ELSE LET i == c \div MAX_PIECE_COLS
             j == c % MAX_PIECE_COLS
         IN Bind(IF pattern[i + 1][j + 1] # "#" THEN st ELSE AddCell(st, self, i, j, grid),
                 LAMBDA s : BuildCells(s, self, pattern, c + 1, grid))

\* piece::piece(const piece_pattern&), the object being `self'
PieceFromPattern(pattern, self) ==
    LET st == BuildCells(EmptyBuild(WorldGrid), self, pattern, 0, WorldGrid)
    IN update_bounding_box(
         [bodies |-> st.bodies, springs |-> st.springs, quads |-> st.quads,
          min_pos |-> Vec(0, 0), max_pos |-> Vec(0, 0)])

\* main.cpp: SPACING of the constructor, in whole units
RECT_SPACING == 12

\* main.cpp: bodies_.reserve(32)
RECT_RESERVE == 32

\* where main.cpp's constructor puts the bodies, and the capacity it reserves
RectGrid(x_origin, y_origin) ==
    [origin |-> Vec(x_origin * SCALE, y_origin * SCALE),
     spacing |-> RECT_SPACING * SCALE, reserve |-> RECT_RESERVE]

\* main.cpp: piece::piece(pattern, x_origin, y_origin), the object being `self'
RectPieceFromPattern(pattern, x_origin, y_origin, self) ==
    LET st == BuildCells(EmptyBuild(RectGrid(x_origin, y_origin)), self, pattern, 0,
                         RectGrid(x_origin, y_origin))
    IN update_bounding_box(
         [bodies |-> st.bodies, springs |-> st.springs, quads |-> st.quads,
          min_pos |-> Vec(0, 0), max_pos |-> Vec(0, 0)])

\* ----------------------------------------------- piece::piece(const piece&)

\* pos_body[&r]: the index of the body of `other' (the object otherId) whose
\* position r refers to; std::map::operator[] yields 0, the first body, for
\* an address that is not in the map
PosBody(other, otherId, r) ==
    IF r[1] = otherId /\ r[2] \in 1..Len(other.bodies) THEN r[2] ELSE 1

\* variant of CopySpring: the rest length is taken between the first body and
\* the spring's second endpoint
CopySpring_FromFirstBody(other, otherId, self, s) ==
    LET i0 == PosBody(other, otherId, s.p0)
        i1 == PosBody(other, otherId, s.p1)
    IN Spring(Ref(self, i0), Ref(self, i1),
              other.bodies[1].position, other.bodies[i1].position)

CopySpring(other, otherId, self, s) ==
    LET i0 == PosBody(other, otherId, s.p0)
        i1 == PosBody(other, otherId, s.p1)
    IN Spring(Ref(self, i0), Ref(self, i1),
              other.bodies[i0].position, other.bodies[i1].position)

\* variant of CopyQuad: the copy keeps the corners of the quad it copies
CopyQuad_Shallow(other, otherId, self, q) == q

CopyQuad(other, otherId, self, q) ==
    Quad(Ref(self, PosBody(other, otherId, q[1])),
         Ref(self, PosBody(other, otherId, q[2])),
         Ref(self, PosBody(other, otherId, q[3])),
         Ref(self, PosBody(other, otherId, q[4])))

\* the copy constructor: the new object `self' copied from `other'
CopyPiece(other, otherId, self) ==
    [bodies |-> other.bodies,
     springs |-> [k \in 1..Len(other.springs) |->
                    CopySpring(other, otherId, self, other.springs[k])],
     quads |-> [k \in 1..Len(other.quads) |->
                    CopyQuad(other, otherId, self, other.quads[k])],
     min_pos |-> other.min_pos,
     max_pos |-> other.max_pos]

\* variant of move: prev_position is left where it was
move_PositionOnly(p, v) ==
    [p EXCEPT !.bodies =
        [b \in 1..Len(p.bodies) |->
            [position |-> VAdd(p.bodies[b].position, v),
             prev_position |-> p.bodies[b].prev_position]]]

\* piece::move
move(p, v) ==
    [p EXCEPT !.bodies =
        [k \in 1..Len(p.bodies) |->
            LET q == VAdd(p.bodies[k].position, v)
            IN [position |-> q, prev_position |-> q]]]


\* ------------------------------------------------------------------- heap

\* the vec2 a reference refers to, and an assignment through it
Pos(h, r) == h[r[1]].bodies[r[2]].position

\* variant of SetPos: the body is put at v at rest
SetPos_AtRest(h, r, v) ==
    [h EXCEPT ![r[1]].bodies[r[2]] = [position |-> v, prev_position |-> v]]

\* an assignment through the reference r, which is to a position
SetPos(h, r, v) == [h EXCEPT ![r[1]].bodies[r[2]].position = v]

\* ------------------------------------------------------------------- body

\* variant of update_position: the speed is not damped
update_position_Undamped(b) ==
    [position |-> VAdd(b.position,
                       VAdd(VSub(b.position, b.prev_position), Vec(0, -GRAVITY))),
     prev_position |-> b.position]

\* body::update_position
update_position(b) ==
    LET d == VSub(b.position, b.prev_position)
        speed == Vec(RoundDiv(DAMPING_NUM * d.x, DAMPING_DEN),
                     RoundDiv(DAMPING_NUM * d.y, DAMPING_DEN))
    IN [position |-> VAdd(b.position, VAdd(speed, Vec(0, -GRAVITY))),
        prev_position |-> b.position]

\* piece::update_positions
update_positions(p) ==
    update_bounding_box(
        [p EXCEPT !.bodies = [i \in 1..Len(p.bodies) |-> update_position(p.bodies[i])]])

\* -------------------------------------------------- piece::check_constraints

\* the coordinates of a vec2 after a division by zero (inf*0, 0/0)
NonFinite == 0 - 1073741824

\* variant of SpringCorrection: f = (l - rest_length)/l, without the .5
SpringCorrection_Whole(dir, l, rest_length) ==
    IF l = 0 THEN Vec(NonFinite, NonFinite)
    ELSE Vec(RoundDiv((l - rest_length) * dir.x, l),
             RoundDiv((l - rest_length) * dir.y, l))

\* f*dir with f = .5*(l - rest_length)/l
SpringCorrection(dir, l, rest_length) ==
    IF l = 0 THEN Vec(NonFinite, NonFinite)
    ELSE Vec(RoundDiv((l - rest_length) * dir.x, 2 * l),
             RoundDiv((l - rest_length) * dir.y, 2 * l))

\* variant of SpringStep: a spring of length 0 is skipped
SpringStep_Guarded(h, s) ==
    LET dir == VSub(Pos(h, s.p1), Pos(h, s.p0))
        l == length(dir)
        c == SpringCorrection(dir, l, s.rest_length)
    IN IF l = 0 THEN h
       ELSE SetPos(SetPos(h, s.p0, VAdd(Pos(h, s.p0), c)),
                   s.p1, VSub(Pos(h, s.p1), c))

\* one pass of the loop over springs_
SpringStep(h, s) ==
    LET dir == VSub(Pos(h, s.p1), Pos(h, s.p0))
        l == length(dir)
        c == SpringCorrection(dir, l, s.rest_length)
        h1 == SetPos(h, s.p0, IF l = 0 THEN c ELSE VAdd(Pos(h, s.p0), c))
    IN SetPos(h1, s.p1, IF l = 0 THEN c ELSE VSub(Pos(h1, s.p1), c))

RECURSIVE RelaxSprings(_, _, _)
RelaxSprings(h, springs, n) ==
    IF n > Len(springs) THEN h
    ELSE Bind(SpringStep(h, springs[n]), LAMBDA g : RelaxSprings(g, springs, n + 1))

\* FRICTION*v
Friction(v) == RoundDiv(FRICTION_NUM * v, FRICTION_DEN)

\* variant of WallStep: the radial clamp at every height
WallStep_AllRadial(p, width) ==
    LET bowl_radius == RoundDiv(width * SCALE, 2)
        d == VSub(p, Vec(bowl_radius, bowl_radius))
        r == length(d)
    IN IF r > bowl_radius
       THEN VSub(p, Vec(RoundDiv(FRICTION_NUM * (r - bowl_radius) * d.x,
                                 FRICTION_DEN * r),
                        RoundDiv(FRICTION_NUM * (r - bowl_radius) * d.y,
                                 FRICTION_DEN * r)))
       ELSE p

\* one pass of the loop over bodies_: the position after the bowl's walls
WallStep(p, width) ==
    LET bowl_radius == RoundDiv(width * SCALE, 2)
    IN IF p.y > bowl_radius
       THEN LET x1 == IF p.x < 0 THEN p.x + Friction(-p.x) ELSE p.x
                x2 == IF x1 > width * SCALE
                      THEN x1 + Friction(width * SCALE - x1) ELSE x1
            IN Vec(x2, p.y)
       ELSE LET d == VSub(p, Vec(bowl_radius, bowl_radius))
                r == length(d)
            IN IF r > bowl_radius
               THEN VSub(p, Vec(RoundDiv(FRICTION_NUM * (r - bowl_radius) * d.x,
                                         FRICTION_DEN * r),
                                RoundDiv(FRICTION_NUM * (r - bowl_radius) * d.y,
                                         FRICTION_DEN * r)))
               ELSE p

\* variant of check_constraints: without the closing update_bounding_box()
check_constraints_NoRefresh(h, id, width, height) ==
    LET h1 == RelaxSprings(h, h[id].springs, 1)
    IN [h1 EXCEPT ![id].bodies =
          [i \in 1..Len(h1[id].bodies) |->
              [h1[id].bodies[i] EXCEPT
                 !.position = WallStep(h1[id].bodies[i].position, width)]]]

\* variant of check_constraints: the wall loop runs before the spring loop
check_constraints_WallsFirst(h, id, width, height) ==
    LET h1 == [h EXCEPT ![id].bodies =
                 [i \in 1..Len(h[id].bodies) |->
                     [h[id].bodies[i] EXCEPT
                        !.position = WallStep(h[id].bodies[i].position, width)]]]
        h2 == RelaxSprings(h1, h1[id].springs, 1)
    IN [h2 EXCEPT ![id] = update_bounding_box(h2[id])]

\* piece::check_constraints of the piece object id
check_constraints(h, id, width, height) ==
    LET h1 == RelaxSprings(h, h[id].springs, 1)
        h2 == [h1 EXCEPT ![id].bodies =
                 [i \in 1..Len(h1[id].bodies) |->
                     [h1[id].bodies[i] EXCEPT
                        !.position = WallStep(h1[id].bodies[i].position, width)]]]
    IN [h2 EXCEPT ![id] = update_bounding_box(h2[id])]

\* --------------------------------------------------------- quad_collision

\* project_quad_to_axis
project_quad_to_axis(h, dir, t) ==
    LET t0 == dot(dir, Pos(h, t[1]))
        t1 == dot(dir, Pos(h, t[2]))
        t2 == dot(dir, Pos(h, t[3]))
        t3 == dot(dir, Pos(h, t[4]))
    IN <<Min2(t0, Min2(t1, Min2(t2, t3))), Max2(t0, Max2(t1, Max2(t2, t3)))>>

\* variant of EdgeNormal: an edge of no length is given the x axis
EdgeNormal_XAxis(from, to) ==
    IF from = to THEN Vec(NSCALE, 0)
    ELSE normalize(Vec(-(to.y - from.y), to.x - from.x))

\* the axis of an edge: the normalized perpendicular
EdgeNormal(from, to) == normalize(Vec(-(to.y - from.y), to.x - from.x))

\* variant of IntervalsSeparated: only the first half of the `||'
IntervalsSeparated_OneSided(s0, s1) == LtPlusEps(s0[2], s1[1])

\* the test of the `if' that returns true: the axis separates the intervals
IntervalsSeparated(s0, s1) == LtPlusEps(s0[2], s1[1]) \/ LtPlusEps(s1[2], s0[1])

\* normal*(push_length/normal.length())
ScaledPush(normal, push_length) ==
    LET nl == length(normal)
    IN IF nl = 0 THEN Vec(NonFinite, NonFinite)
       ELSE Vec(RoundDiv(normal.x * push_length, nl),
                RoundDiv(normal.y * push_length, nl))

\* variant of ReplacesPush: a later axis replaces the push vector when its
\* scaled length is larger
ReplacesPush_Larger(first, push_length, push_vector) ==
    first \/ push_length * push_length > length_squared(push_vector)

\* first: the template argument First; a later axis replaces the push vector
\* when its scaled length is strictly smaller
ReplacesPush(first, push_length, push_vector) ==
    first \/ push_length * push_length < length_squared(push_vector)

\* quad_collision::separating_axis_test<First>(from, to) with push_vector_ = pv:
\* the value returned and push_vector_ afterwards
separating_axis_test(h, t0, t1, first, from, to, pv) ==
    LET normal == EdgeNormal(from, to)
        s0 == project_quad_to_axis(h, normal, t0)
        s1 == project_quad_to_axis(h, normal, t1)
    IN IF IntervalsSeparated(s0, s1)
       THEN [separating |-> TRUE, push_vector |-> pv]
       ELSE LET near == s0[2] - s1[1] < s1[2] - s0[1]
                n == IF near THEN normal ELSE VNeg(normal)
                overlap == IF near THEN s0[2] - s1[1] ELSE s1[2] - s0[1]
                push_length == RoundDiv(FRICTION_NUM * overlap, 2 * FRICTION_DEN)
            IN [separating |-> FALSE,
                push_vector |-> IF ReplacesPush(first, push_length, pv)
                                THEN ScaledPush(n, push_length) ELSE pv]

\* variant of QuadEdges: the edges of the first quad only
QuadEdges_FirstQuadOnly(t0, t1) ==
    << <<t0[1], t0[2]>>, <<t0[2], t0[3]>>, <<t0[3], t0[4]>>, <<t0[4], t0[1]>> >>

\* the edges operator() tests, in its order
QuadEdges(t0, t1) ==
    << <<t0[1], t0[2]>>, <<t0[2], t0[3]>>, <<t0[3], t0[4]>>, <<t0[4], t0[1]>>,
       <<t1[1], t1[2]>>, <<t1[2], t1[3]>>, <<t1[3], t1[4]>>, <<t1[4], t1[1]>> >>

\* the chain of `if (separating_axis_test(..)) return false;' from edge a on:
\* axes = the number of axes tested when operator() leaves the chain
RECURSIVE AxisChain(_, _, _, _, _, _)
AxisChain(h, t0, t1, edges, a, pv) ==
    IF a > Len(edges) THEN [collided |-> TRUE, push_vector |-> pv, axes |-> a - 1]
    ELSE Bind(separating_axis_test(h, t0, t1, a = 1,
                                   Pos(h, edges[a][1]), Pos(h, edges[a][2]), pv),
              LAMBDA r :
                IF r.separating
                THEN [collided |-> FALSE, push_vector |-> r.push_vector, axes |-> a]
                ELSE AxisChain(h, t0, t1, edges, a + 1, r.push_vector))

\* t.p0 += v; .. t.p3 += v through the references
RECURSIVE ShiftQuad(_, _, _, _)
ShiftQuad(h, t, v, c) ==
    IF c > 4 THEN h
    ELSE Bind(SetPos(h, t[c], VAdd(Pos(h, t[c]), v)),
              LAMBDA g : ShiftQuad(g, t, v, c + 1))

\* variant of quad_collision: only the second quad is pushed
quad_collision_OneSided(h, t0, t1) ==
    Bind(AxisChain(h, t0, t1, QuadEdges(t0, t1), 1, Vec(0, 0)),
         LAMBDA r :
           [collided |-> r.collided, push_vector |-> r.push_vector, axes |-> r.axes,
            heap |-> IF r.collided THEN ShiftQuad(h, t1, r.push_vector, 1) ELSE h])

\* quad_collision(t0, t1)(): the value returned, the push vector and the heap
quad_collision(h, t0, t1) ==
    Bind(AxisChain(h, t0, t1, QuadEdges(t0, t1), 1, Vec(0, 0)),
         LAMBDA r :
           IF ~r.collided
           THEN [collided |-> FALSE, push_vector |-> r.push_vector,
                 axes |-> r.axes, heap |-> h]
           ELSE [collided |-> TRUE, push_vector |-> r.push_vector,
                 axes |-> r.axes,
                 heap |-> ShiftQuad(ShiftQuad(h, t0, VNeg(r.push_vector), 1),
                                    t1, r.push_vector, 1)])

\* ---------------------------------------------------------- piece::collide

\* variant of BoxesApart: boxes that touch are rejected too
BoxesApart_Touching(a, b) ==
    \/ a.max_pos.x <= b.min_pos.x
    \/ b.max_pos.x <= a.min_pos.x
    \/ a.max_pos.y <= b.min_pos.y
    \/ b.max_pos.y <= a.min_pos.y

\* the four `return's of the bounding-box test
BoxesApart(a, b) ==
    \/ a.max_pos.x < b.min_pos.x
    \/ b.max_pos.x < a.min_pos.x
    \/ a.max_pos.y < b.min_pos.y
    \/ b.max_pos.y < a.min_pos.y

\* the two nested loops over quads_ and other.quads_, pair n of them
RECURSIVE CollideQuads(_, _, _, _, _, _)
CollideQuads(h, qa, qb, n, collided, tests) ==
    IF n >= Len(qa) * Len(qb)
    THEN [heap |-> h, collided |-> collided, tests |-> tests]
    ELSE Bind(quad_collision(h, qa[(n \div Len(qb)) + 1], qb[(n % Len(qb)) + 1]),
              LAMBDA r : CollideQuads(r.heap, qa, qb, n + 1,
                                      collided \/ r.collided, tests + 1))

\* piece a's collide(piece b): the heap afterwards, the number of quad tests
\* made, the local `collided', and whether the boxes were recomputed
collide(h, a, b) ==
    IF BoxesApart(h[a], h[b])
    THEN [heap |-> h, tests |-> 0, collided |-> FALSE, refreshed |-> FALSE]
    ELSE Bind(CollideQuads(h, h[a].quads, h[b].quads, 0, FALSE, 0),
              LAMBDA r :
                IF r.collided
                THEN [heap |-> [r.heap EXCEPT ![a] = update_bounding_box(r.heap[a]),
                                              ![b] = update_bounding_box(r.heap[b])],
                      tests |-> r.tests, collided |-> TRUE, refreshed |-> TRUE]
                ELSE [heap |-> r.heap, tests |-> r.tests, collided |-> FALSE,
                      refreshed |-> FALSE])


\* ------------------------------------------------------------------ world

VARIABLES
    heap,        \* the piece objects allocated so far, by address 1..Len(heap)
    factory,     \* piece_factory::pieces_: the prototypes (<<>> before the
                 \* singleton is constructed)
    pieces,      \* world_impl::pieces_
    spawn_tic,   \* world_impl::spawn_tic_
    pc,          \* where update() stands; "idle" between two calls
    it,          \* the solver loop's counter i
    j,           \* the index of the piece loops (1-based)
    k,           \* the inner index of the collide loop (1-based)
    ticks,       \* update() calls that have returned
    log          \* what the current (or last) update() has done so far

vars == <<heap, factory, pieces, spawn_tic, pc, it, j, k, ticks, log>>

width == WorldWidth

height == WorldHeight

\* no call made yet by this update()
EmptyLog(n) ==
    [upd |-> [p \in 1..n |-> 0],     \* update_positions calls per piece
     chk |-> [p \in 1..n |-> 0],     \* check_constraints calls per piece
     iters |-> 0,                    \* solver iterations completed
     pairs |-> <<>>,                 \* collide calls of the current iteration
     collide |-> [a |-> 0, b |-> 0, tests |-> 0, collided |-> FALSE,
                  refreshed |-> FALSE, before |-> <<>>],
     decremented |-> FALSE,          \* --spawn_tic_ done
     spawned |-> 0,                  \* the piece object pushed, or 0
     entry |-> <<>>]                 \* the objects as update() found them

\* world_impl::world_impl
Init ==
    /\ heap = <<>>
    /\ factory = <<>>
    /\ pieces = <<>>
    /\ spawn_tic = SPAWN_INTERVAL
    /\ pc = "idle"
    /\ it = 0
    /\ j = 0
    /\ k = 0
    /\ ticks = 0
    /\ log = EmptyLog(0)

\* update() is entered: `if (!pieces_.empty())'; at most `most' calls are made
CallUpTo(most) ==
    /\ pc = "idle"
    /\ ticks < most
    /\ pc' = IF pieces = <<>> THEN "spawn" ELSE "integrate"
    /\ it' = 0
    /\ j' = 1
    /\ k' = 0
    /\ log' = [EmptyLog(Len(pieces)) EXCEPT !.entry = heap]
    /\ UNCHANGED <<heap, factory, pieces, spawn_tic, ticks>>

Call == CallUpTo(MaxTicks)

\* one pass of `for (auto& i : pieces_) i->update_positions();'
UpdatePositions ==
    /\ pc = "integrate"
    /\ heap' = [heap EXCEPT ![pieces[j]] = update_positions(@)]
    /\ log' = [log EXCEPT !.upd[j] = @ + 1]
    /\ IF j < Len(pieces)
       THEN j' = j + 1 /\ pc' = pc
       ELSE j' = 1 /\ pc' = "constraints"
    /\ UNCHANGED <<factory, pieces, spawn_tic, it, k, ticks>>

\* variant of EndIteration: a solver loop that stops one pass early
EndIteration_OneShort ==
    /\ it' = it + 1
    /\ j' = 1
    /\ k' = 0
    /\ pc' = IF it + 2 < NUM_ITERATIONS THEN "constraints" ELSE "spawn"

\* the end of one pass of the solver loop: i++ and the test i < NUM_ITERATIONS
EndIteration ==
    /\ it' = it + 1
    /\ j' = 1
    /\ k' = 0
    /\ pc' = IF it + 1 < NUM_ITERATIONS THEN "constraints" ELSE "spawn"

\* variant of InnerLoopStart: `size_t k = j'
InnerLoopStart_Same(outer) == outer

\* `size_t k = j + 1': where the inner loop over pieces_ starts
InnerLoopStart(outer) == outer + 1

\* one pass of `for (auto& i : pieces_) i->check_constraints(width_, height_);'
CheckConstraints ==
    /\ pc = "constraints"
    /\ heap' = check_constraints(heap, pieces[j], width, height)
    /\ IF j < Len(pieces)
       THEN /\ j' = j + 1
            /\ UNCHANGED <<pc, it, k>>
            /\ log' = [log EXCEPT !.chk[j] = @ + 1]
       ELSE IF 1 < Len(pieces)
       THEN /\ pc' = "collide"
            /\ j' = 1
            /\ k' = InnerLoopStart(1)
            /\ it' = it
            /\ log' = [log EXCEPT !.chk[j] = @ + 1, !.pairs = <<>>]
       ELSE /\ EndIteration
            /\ log' = [log EXCEPT !.chk[j] = @ + 1, !.iters = @ + 1]
    /\ UNCHANGED <<factory, pieces, spawn_tic, ticks>>

\* one pass of the loops over j < k: pieces_[j]->collide(*pieces_[k])
Collide ==
    /\ pc = "collide"
    /\ \E r \in {collide(heap, pieces[j], pieces[k])} :
       LET called == [a |-> pieces[j], b |-> pieces[k], tests |-> r.tests,
                      collided |-> r.collided, refreshed |-> r.refreshed,
                      before |-> <<heap[pieces[j]], heap[pieces[k]]>>]
       IN /\ heap' = r.heap
          /\ IF k < Len(pieces)
             THEN /\ k' = k + 1
                  /\ UNCHANGED <<pc, it, j>>
                  /\ log' = [log EXCEPT !.pairs = Append(@, <<j, k>>),
                                        !.collide = called]
             ELSE IF j + 1 < Len(pieces)
             THEN /\ j' = j + 1
                  /\ k' = InnerLoopStart(j + 1)
                  /\ UNCHANGED <<pc, it>>
                  /\ log' = [log EXCEPT !.pairs = Append(@, <<j, k>>),
                                        !.collide = called]
             ELSE /\ EndIteration
                  /\ log' = [log EXCEPT !.pairs = Append(@, <<j, k>>),
                                        !.collide = called, !.iters = @ + 1]
    /\ UNCHANGED <<factory, pieces, spawn_tic, ticks>>

\* the results of the two rand() calls of a spawn that are offered here
RandDraws == {<<n, 7 * n>> : n \in 0..MaxDraw}

\* variant of SpawnDue: `!spawn_tic_--', the test made before the decrement
SpawnDue_PostDecrement(tic) == tic = 0

\* `!--spawn_tic_': whether the countdown, once decremented, has run out
SpawnDue(tic) == tic - 1 = 0

\* piece_factory::piece_factory: the heap with the prototypes allocated
RECURSIVE BuildFactory(_, _)
BuildFactory(h, t) ==
    IF t > Len(Patterns) THEN h
    ELSE Bind(Append(h, PieceFromPattern(Patterns[t], Len(h) + 1)),
              LAMBDA g : BuildFactory(g, t + 1))

\* piece_factory::make_piece(type): the new object, at address self
make_piece(h, fac, type, self) == CopyPiece(h[fac[type + 1]], fac[type + 1], self)

\* `if (!--spawn_tic_) { .. }' and the return of update(), the two rand()
\* results being drawn from `draws'
SpawnFrom(draws) ==
    /\ pc = "spawn"
    /\ pc' = "idle"
    /\ ticks' = ticks + 1
    /\ UNCHANGED <<it, j, k>>
    /\ IF ~SpawnDue(spawn_tic)
       THEN /\ spawn_tic' = spawn_tic - 1
            /\ log' = [log EXCEPT !.decremented = TRUE]
            /\ UNCHANGED <<heap, factory, pieces>>
       ELSE \E rnd \in draws :
              LET type == rnd[1] % Len(Patterns)
                  x == rnd[2] % (width - BLOCK_SIZE * MAX_PIECE_COLS)
                  h1 == IF factory = <<>> THEN BuildFactory(heap, 1) ELSE heap
                  fac == IF factory = <<>>
                         THEN [t \in 1..Len(Patterns) |-> Len(heap) + t]
                         ELSE factory
                  self == Len(h1) + 1
                  piece == move(make_piece(h1, fac, type, self),
                                Vec(x * SCALE, height * SCALE))
              IN /\ heap' = Append(h1, piece)
                 /\ factory' = fac
                 /\ pieces' = Append(pieces, self)
                 /\ spawn_tic' = SPAWN_INTERVAL
                 /\ log' = [log EXCEPT !.decremented = TRUE, !.spawned = self]

Spawn == SpawnFrom(RandDraws)

Next == Call \/ UpdatePositions \/ CheckConstraints \/ Collide \/ Spawn

Spec == Init /\ [][Next]_vars

\* ------------------------------------------- the world with three pieces

\* update() calls made in the longer run: one past the third spawn
LongTicks == 91

\* the rand() results offered in the longer run
LongDraws == {<<1, 7>>}

CallLong == CallUpTo(LongTicks)

SpawnLong == SpawnFrom(LongDraws)

NextLong == CallLong \/ UpdatePositions \/ CheckConstraints \/ Collide \/ SpawnLong

SpecLong == Init /\ [][NextLong]_vars

\* ------------------------------------------- two quads, outside the world

\* quad_collision and piece::collide applied to two one-quad pieces at drawn
\* places: the corners of a quad, in its order p0..p3
QuadShapes ==
    [square    |-> <<Vec(0, 0), Vec(SCALE, 0), Vec(SCALE, SCALE), Vec(0, SCALE)>>,
     square_cw |-> <<Vec(0, 0), Vec(0, SCALE), Vec(SCALE, SCALE), Vec(SCALE, 0)>>,
     diamond   |-> <<Vec(SCALE, 0), Vec(2 * SCALE, SCALE),
                     Vec(SCALE, 2 * SCALE), Vec(0, SCALE)>>,
     skewed    |-> <<Vec(0, 0), Vec(SCALE, SCALE \div 2),
                     Vec(SCALE + SCALE \div 2, 2 * SCALE), Vec(0, SCALE)>>]

\* where the second quad is put, relative to the first
QuadOffsets ==
    {Vec(dx, dy) : dx \in {0, SCALE \div 2, SCALE - 1, SCALE, SCALE + 1, 2 * SCALE},
                   dy \in {0, SCALE \div 2, SCALE}}

\* a piece of four bodies and one quad over them, its box computed as the
\* constructors leave it
QuadPiece(corners, off, self) ==
    update_bounding_box(
      [bodies |-> [c \in 1..4 |-> Body(VAdd(corners[c], off))],
       springs |-> <<>>,
       quads |-> <<Quad(Ref(self, 1), Ref(self, 2), Ref(self, 3), Ref(self, 4))>>,
       min_pos |-> Vec(0, 0), max_pos |-> Vec(0, 0)])

NoResult == [collided |-> FALSE, push_vector |-> Vec(0, 0), axes |-> 0, tests |-> 0]

InitQuads ==
    \E s0 \in DOMAIN QuadShapes, s1 \in DOMAIN QuadShapes, off \in QuadOffsets :
       /\ heap = <<QuadPiece(QuadShapes[s0], Vec(0, 0), 1),
                   QuadPiece(QuadShapes[s1], off, 2)>>
       /\ factory = <<>>
       /\ pieces = <<1, 2>>
       /\ spawn_tic = SPAWN_INTERVAL
       /\ pc = "quads"
       /\ it = 0
       /\ j = 1
       /\ k = 2
       /\ ticks = 0
       /\ log = [shape0 |-> s0, shape1 |-> s1, offset |-> off, before |-> heap,
                 r1 |-> NoResult, r2 |-> NoResult]

\* quad_collision(q0, q1)() on the quads of the two pieces
QuadTest ==
    /\ pc = "quads"
    /\ \E r \in {quad_collision(heap, heap[1].quads[1], heap[2].quads[1])} :
          /\ heap' = r.heap
          /\ log' = [log EXCEPT !.r1 = [collided |-> r.collided,
                                        push_vector |-> r.push_vector,
                                        axes |-> r.axes, tests |-> 1]]
    /\ pc' = "tested"
    /\ UNCHANGED <<factory, pieces, spawn_tic, it, j, k, ticks>>

\* quad_collision(q1, q0)() on the positions the first test was given
QuadTestSwapped ==
    /\ pc = "tested"
    /\ \E r \in {quad_collision(log.before, log.before[2].quads[1],
                                  log.before[1].quads[1])} :
          /\ heap' = r.heap
          /\ log' = [log EXCEPT !.r2 = [collided |-> r.collided,
                                        push_vector |-> r.push_vector,
                                        axes |-> r.axes, tests |-> 1]]
    /\ pc' = "swapped"
    /\ UNCHANGED <<factory, pieces, spawn_tic, it, j, k, ticks>>

\* pieces_[j]->collide(*pieces_[k]) on the two pieces
PieceCollide ==
    /\ pc = "quads"
    /\ \E r \in {collide(heap, pieces[j], pieces[k])} :
          /\ heap' = r.heap
          /\ log' = [log EXCEPT !.r1 = [collided |-> r.collided,
                                        push_vector |-> Vec(0, 0),
                                        axes |-> 0, tests |-> r.tests]]
    /\ pc' = "collided"
    /\ UNCHANGED <<factory, pieces, spawn_tic, it, j, k, ticks>>

NextQuads == QuadTest \/ QuadTestSwapped \/ PieceCollide

SpecQuads == InitQuads /\ [][NextQuads]_vars

\* ------------------------------------- two quads, one with an edge of no length

\* quads whose corners have run together: p0 on p1, p1 on p2, p3 on p0, and
\* all four on one point
DegenerateShapes ==
    [p0_on_p1  |-> <<Vec(0, 0), Vec(0, 0), Vec(SCALE, SCALE), Vec(0, SCALE)>>,
     p1_on_p2  |-> <<Vec(0, 0), Vec(SCALE, 0), Vec(SCALE, 0), Vec(0, SCALE)>>,
     p3_on_p0  |-> <<Vec(0, 0), Vec(SCALE, 0), Vec(SCALE, SCALE), Vec(0, 0)>>,
     one_point |-> <<Vec(SCALE \div 2, SCALE \div 2), Vec(SCALE \div 2, SCALE \div 2),
                     Vec(SCALE \div 2, SCALE \div 2), Vec(SCALE \div 2, SCALE \div 2)>>]

ShapeNamed(s) ==
    IF s \in DOMAIN DegenerateShapes THEN DegenerateShapes[s] ELSE QuadShapes[s]

\* as InitQuads, at least one of the two quads having an edge of no length
InitDegenerate ==
    \E s0 \in DOMAIN QuadShapes \cup DOMAIN DegenerateShapes,
       s1 \in DOMAIN QuadShapes \cup DOMAIN DegenerateShapes,
       off \in QuadOffsets :
       /\ s0 \in DOMAIN DegenerateShapes \/ s1 \in DOMAIN DegenerateShapes
       /\ heap = <<QuadPiece(ShapeNamed(s0), Vec(0, 0), 1),
                   QuadPiece(ShapeNamed(s1), off, 2)>>
       /\ factory = <<>>
       /\ pieces = <<1, 2>>
       /\ spawn_tic = SPAWN_INTERVAL
       /\ pc = "quads"
       /\ it = 0
       /\ j = 1
       /\ k = 2
       /\ ticks = 0
       /\ log = [shape0 |-> s0, shape1 |-> s1, offset |-> off, before |-> heap,
                 r1 |-> NoResult, r2 |-> NoResult]

NextDegenerate == QuadTest \/ QuadTestSwapped \/ PieceCollide

SpecDegenerate == InitDegenerate /\ [][NextDegenerate]_vars


\* ------------------------------ one spring and two bodies, outside the world

\* vec2::normalize, the spring loop and the wall loop of check_constraints
\* applied to drawn vectors: a piece of two bodies, the first at the origin
\* and the second at a drawn place, joined by one spring of a drawn rest length

\* spring relaxations applied in a row
MaxRelax == 3

\* the places of the second body, in whole units: inside, on and outside the
\* bowl, above and below its centre line, left and right of the walls
PartPlaces ==
    {Vec(x * SCALE, y * SCALE) : x \in {-20, 0, 3, 30, 50, 100, 120},
                                 y \in {-10, 0, 4, 30, 50, 51, 90}}

\* the rest lengths of a piece's springs: a cell's side and its diagonal
PartRestLengths ==
    {BLOCK_SIZE * SCALE, length(Vec(BLOCK_SIZE * SCALE, BLOCK_SIZE * SCALE))}

\* a unit of length in which EPSILON = 1e-5 is 1000
FineUnit == 1000 * EPSILON_INV

\* vectors around the length 1e-5, counted in 1/FineUnit
FineVectors ==
    {Vec(x, y) : x \in {0, 600, 1000, 1001, 3000}, y \in {0, -800, 1000}}

PartPiece(at, rest_length, self) ==
    update_bounding_box(
      [bodies |-> <<Body(Vec(0, 0)), Body(at)>>,
       springs |-> <<[p0 |-> Ref(self, 1), p1 |-> Ref(self, 2),
                      rest_length |-> rest_length]>>,
       quads |-> <<>>,
       min_pos |-> Vec(0, 0), max_pos |-> Vec(0, 0)])

InitParts ==
    \E at \in PartPlaces, rest \in PartRestLengths, fine \in FineVectors :
       /\ heap = <<PartPiece(at, rest, 1)>>
       /\ factory = <<>>
       /\ pieces = <<1>>
       /\ spawn_tic = SPAWN_INTERVAL
       /\ pc = "parts"
       /\ it = 0
       /\ j = 1
       /\ k = 0
       /\ ticks = 0
       /\ log = [fine |-> fine, before |-> heap,
                 normal |-> [v |-> Vec(0, 0), unit |-> SCALE,
                             out |-> normalize_in(Vec(0, 0), SCALE)]]

\* v.normalize() on the vector between the bodies (in ulps) or on the fine
\* vector
Normalize ==
    /\ pc = "parts"
    /\ \E inp \in {[v |-> heap[1].bodies[2].position, unit |-> SCALE],
                   [v |-> log.fine, unit |-> FineUnit]} :
          log' = [log EXCEPT !.normal = [v |-> inp.v, unit |-> inp.unit,
                                         out |-> normalize_in(inp.v, inp.unit)]]
    /\ pc' = "normalized"
    /\ UNCHANGED <<heap, factory, pieces, spawn_tic, it, j, k, ticks>>

\* the spring loop of check_constraints on the piece, once more
Relax ==
    /\ pc \in {"parts", "relaxed"}
    /\ it < MaxRelax
    /\ heap' = RelaxSprings(heap, heap[1].springs, 1)
    /\ it' = it + 1
    /\ pc' = "relaxed"
    /\ UNCHANGED <<factory, pieces, spawn_tic, j, k, ticks, log>>

\* the wall loop of check_constraints on the piece
WallClamp ==
    /\ pc = "parts"
    /\ heap' = [heap EXCEPT ![1].bodies =
                  [b \in 1..Len(heap[1].bodies) |->
                      [heap[1].bodies[b] EXCEPT
                         !.position = WallStep(heap[1].bodies[b].position, width)]]]
    /\ pc' = "walled"
    /\ UNCHANGED <<factory, pieces, spawn_tic, it, j, k, ticks, log>>

NextParts == Normalize \/ Relax \/ WallClamp

SpecParts == InitParts /\ [][NextParts]_vars


\* ---------------------- two triangles of the triangle variant (unnamed/part_000)

\* the triangle-triangle collision of world::update applied to two triangles
\* over six bodies of one world object, at drawn places

\* the grid spacing of spawn_piece, in whole units
TRIANGLE_SPACING == 20

\* triangle::initialize_bounding_circle on triangle t of world object w
initialize_bounding_circle(h, t) ==
    LET v0 == Pos(h, t.b[1])
        v1 == Pos(h, t.b[2])
        v2 == Pos(h, t.b[3])
        center == Vec(RoundDiv(v0.x + v1.x + v2.x, 3), RoundDiv(v0.y + v1.y + v2.y, 3))
        r0 == length(VSub(v0, center))
        r1 == length(VSub(v1, center))
        r2 == length(VSub(v2, center))
    IN [t EXCEPT !.center = center, !.radius = Max2(r0, Max2(r1, r2))]

\* project_triangle_to_axis
project_triangle_to_axis(h, dir, t) ==
    LET t0 == dot(dir, Pos(h, t.b[1]))
        t1 == dot(dir, Pos(h, t.b[2]))
        t2 == dot(dir, Pos(h, t.b[3]))
    IN <<Min2(t0, Min2(t1, t2)), Max2(t0, Max2(t1, t2))>>

\* `First || push_length < push_vector_.length_squared()': the length itself,
\* in ulps, against a squared length, in ulps squared
ReplacesTrianglePush(first, push_length, push_vector) ==
    first \/ push_length * SCALE < length_squared(push_vector)

\* triangle_intersection::separating_axis_test<First>(from, to) with
\* push_vector_ = pv: the value returned and push_vector_ afterwards
triangle_separating_axis_test(h, t0, t1, first, from, to, pv) ==
    LET normal == EdgeNormal(from, to)
        s0 == project_triangle_to_axis(h, normal, t0)
        s1 == project_triangle_to_axis(h, normal, t1)
    IN IF IntervalsSeparated(s0, s1)
       THEN [separating |-> TRUE, push_vector |-> pv]
       ELSE LET near == s0[2] - s1[1] < s1[2] - s0[1]
                n == IF near THEN normal ELSE VNeg(normal)
                overlap == IF near THEN s0[2] - s1[1] ELSE s1[2] - s0[1]
                push_length == RoundDiv(FRICTION_NUM * overlap, 2 * FRICTION_DEN)
            IN [separating |-> FALSE,
                push_vector |-> IF ReplacesTrianglePush(first, push_length, pv)
                                THEN ScaledPush(n, push_length) ELSE pv]

\* the edges triangle_intersection::operator() tests, in its order
TriangleEdges(t0, t1) ==
    << <<t0.b[1], t0.b[2]>>, <<t0.b[2], t0.b[3]>>, <<t0.b[3], t0.b[1]>>,
       <<t1.b[1], t1.b[2]>>, <<t1.b[2], t1.b[3]>>, <<t1.b[3], t1.b[1]>> >>

\* the chain of `if (separating_axis_test(..)) return false;' from edge a on
RECURSIVE TriangleChain(_, _, _, _, _, _)
TriangleChain(h, t0, t1, edges, a, pv) ==
    IF a > Len(edges) THEN [collided |-> TRUE, push_vector |-> pv, axes |-> a - 1]
    ELSE Bind(triangle_separating_axis_test(h, t0, t1, a = 1,
                                   Pos(h, edges[a][1]), Pos(h, edges[a][2]), pv),
              LAMBDA r :
                IF r.separating
                THEN [collided |-> FALSE, push_vector |-> r.push_vector, axes |-> a]
                ELSE TriangleChain(h, t0, t1, edges, a + 1, r.push_vector))

\* the bounding circles lie apart: the first `return false' of operator()
CirclesApart(t0, t1) ==
    length_squared(VSub(t0.center, t1.center)) >
        (t0.radius + t1.radius) * (t0.radius + t1.radius)

\* triangle_intersection(t0, t1)(): the value returned and push_vector_
triangle_intersection(h, t0, t1) ==
    IF CirclesApart(t0, t1)
    THEN [collided |-> FALSE, push_vector |-> Vec(0, 0), axes |-> 0]
    ELSE TriangleChain(h, t0, t1, TriangleEdges(t0, t1), 1, Vec(0, 0))

\* triangle::shift(offset)
RECURSIVE ShiftTriangle(_, _, _, _)
ShiftTriangle(h, t, v, c) ==
    IF c > 3 THEN h
    ELSE Bind(SetPos(h, t.b[c], VAdd(Pos(h, t.b[c]), v)),
              LAMBDA g : ShiftTriangle(g, t, v, c + 1))

\* the corners of a triangle as spawn_piece makes the two triangles of a
\* cell: (b0, b1, b2) and (b2, b3, b0); and a sliver
TriangleShapes ==
    [lower  |-> <<Vec(0, 0), Vec(TRIANGLE_SPACING * SCALE, 0),
                  Vec(TRIANGLE_SPACING * SCALE, TRIANGLE_SPACING * SCALE)>>,
     upper  |-> <<Vec(TRIANGLE_SPACING * SCALE, TRIANGLE_SPACING * SCALE),
                  Vec(0, TRIANGLE_SPACING * SCALE), Vec(0, 0)>>,
     sheared |-> <<Vec(0, 0), Vec(TRIANGLE_SPACING * SCALE, 3 * SCALE),
                   Vec(TRIANGLE_SPACING * SCALE + 5 * SCALE, TRIANGLE_SPACING * SCALE)>>]

\* where the second triangle is put, relative to the first
TriangleOffsets ==
    {Vec(dx * SCALE, dy * SCALE) :
        dx \in {0, 1, TRIANGLE_SPACING \div 2, TRIANGLE_SPACING - 1,
                TRIANGLE_SPACING, 2 * TRIANGLE_SPACING},
        dy \in {0, 3, TRIANGLE_SPACING \div 2, TRIANGLE_SPACING}}

\* the world with six bodies and two triangles over them
TriangleWorld(c0, c1, off) ==
    [bodies |-> [c \in 1..6 |-> IF c <= 3 THEN Body(c0[c])
                                ELSE Body(VAdd(c1[c - 3], off))],
     springs |-> <<>>,
     triangles |-> <<[b |-> <<Ref(1, 1), Ref(1, 2), Ref(1, 3)>>,
                      center |-> Vec(0, 0), radius |-> 0],
                     [b |-> <<Ref(1, 4), Ref(1, 5), Ref(1, 6)>>,
                      center |-> Vec(0, 0), radius |-> 0]>>]

InitTriangles ==
    \E s0 \in DOMAIN TriangleShapes, s1 \in DOMAIN TriangleShapes,
       off \in TriangleOffsets :
       /\ heap = <<TriangleWorld(TriangleShapes[s0], TriangleShapes[s1], off)>>
       /\ factory = <<>>
       /\ pieces = <<>>
       /\ spawn_tic = SPAWN_INTERVAL
       /\ pc = "triangles"
       /\ it = 0
       /\ j = 1
       /\ k = 2
       /\ ticks = 0
       /\ log = [shape0 |-> s0, shape1 |-> s1, offset |-> off, before |-> heap,
                 r1 |-> [collided |-> FALSE, push_vector |-> Vec(0, 0), axes |-> 0]]

\* one pass of the triangle-triangle collisions of world::update on the two
\* triangles: the bounding circles, the intersection test and the two shifts
TriangleCollide ==
    /\ pc = "triangles"
    /\ \E circled \in {[heap EXCEPT ![1].triangles =
                            [t \in 1..Len(heap[1].triangles) |->
                                initialize_bounding_circle(heap, heap[1].triangles[t])]]} :
       \E r \in {triangle_intersection(circled, circled[1].triangles[j],
                                        circled[1].triangles[k])} :
       LET t0 == circled[1].triangles[j]
           t1 == circled[1].triangles[k]
       IN /\ heap' = IF r.collided
                     THEN ShiftTriangle(ShiftTriangle(circled, t0, VNeg(r.push_vector), 1),
                                        t1, r.push_vector, 1)
                     ELSE circled
          /\ log' = [log EXCEPT !.before = circled, !.r1 = r]
    /\ pc' = "tested"
    /\ UNCHANGED <<factory, pieces, spawn_tic, it, j, k, ticks>>

NextTriangles == TriangleCollide

SpecTriangles == InitTriangles /\ [][NextTriangles]_vars


\* ------------------------------------ the rectangular variant (main.cpp)

WINDOW_WIDTH == 320

WINDOW_HEIGHT == 240

BORDER == 8

left_wall_x == BORDER * SCALE

right_wall_x == (WINDOW_WIDTH - BORDER) * SCALE

top_wall_y == BORDER * SCALE

bottom_wall_y == (WINDOW_HEIGHT - BORDER) * SCALE

\* variant of RectWallStep: the bottom wall, which the code compiles out, in
\* force
RectWallStep_WithBottom(p) ==
    LET y1 == IF p.y < top_wall_y THEN p.y + Friction(top_wall_y - p.y) ELSE p.y
        y2 == IF y1 > bottom_wall_y THEN y1 + Friction(bottom_wall_y - y1) ELSE y1
        x1 == IF p.x < left_wall_x THEN p.x + Friction(left_wall_x - p.x) ELSE p.x
        x2 == IF x1 > right_wall_x THEN x1 + Friction(right_wall_x - x1) ELSE x1
    IN Vec(x2, y2)

\* one pass of the loop over bodies_ of main.cpp's check_constraints: the
\* position after the three walls
RectWallStep(p) ==
    LET y1 == IF p.y < top_wall_y THEN p.y + Friction(top_wall_y - p.y) ELSE p.y
        x1 == IF p.x < left_wall_x THEN p.x + Friction(left_wall_x - p.x) ELSE p.x
        x2 == IF x1 > right_wall_x THEN x1 + Friction(right_wall_x - x1) ELSE x1
    IN Vec(x2, y1)

\* main.cpp's piece::check_constraints of the piece object id
rect_check_constraints(h, id) ==
    LET h1 == RelaxSprings(h, h[id].springs, 1)
        h2 == [h1 EXCEPT ![id].bodies =
                 [i \in 1..Len(h1[id].bodies) |->
                     [h1[id].bodies[i] EXCEPT
                        !.position = RectWallStep(h1[id].bodies[i].position)]]]
    IN [h2 EXCEPT ![id] = update_bounding_box(h2[id])]

\* wall passes applied in a row
MaxWallSteps == 3

\* the places of a body: inside, on and outside each wall, in ulps
RectPlaces ==
    {Vec(x, y) :
        x \in {-5 * SCALE, 0, left_wall_x - 2, left_wall_x - 1, left_wall_x,
               left_wall_x + 1, 100 * SCALE, right_wall_x - 1, right_wall_x,
               right_wall_x + 1, right_wall_x + 2, 330 * SCALE},
        y \in {-3 * SCALE, top_wall_y - 1, top_wall_y, 100 * SCALE,
               bottom_wall_y, bottom_wall_y + 1, 250 * SCALE}}

\* a piece of one body and no spring
RectBodyPiece(at) ==
    update_bounding_box([bodies |-> <<Body(at)>>, springs |-> <<>>, quads |-> <<>>,
                         min_pos |-> Vec(0, 0), max_pos |-> Vec(0, 0)])

InitRect ==
    \E at \in RectPlaces :
       /\ heap = <<RectBodyPiece(at)>>
       /\ factory = <<>>
       /\ pieces = <<1>>
       /\ spawn_tic = SPAWN_INTERVAL
       /\ pc = "rect"
       /\ it = 0
       /\ j = 1
       /\ k = 0
       /\ ticks = 0
       /\ log = [before |-> heap]

\* check_constraints of main.cpp on the piece, once more
RectCheckConstraints ==
    /\ pc = "rect"
    /\ it < MaxWallSteps
    /\ heap' = rect_check_constraints(heap, pieces[j])
    /\ it' = it + 1
    /\ UNCHANGED <<factory, pieces, spawn_tic, pc, j, k, ticks, log>>

NextRect == RectCheckConstraints

SpecRect == InitRect /\ [][NextRect]_vars

\* ------------------------------------------- the constructors on a pattern

\* the most cells a drawn pattern fills, or leaves blank
MaxFilled == 3

AllCells == (1..MAX_PIECE_ROWS) \X (1..MAX_PIECE_COLS)

\* piece_pattern::pattern with exactly the given cells filled
PatternOf(cells) ==
    [r \in 1..MAX_PIECE_ROWS |->
       [c \in 1..MAX_PIECE_COLS |-> IF <<r, c>> \in cells THEN "#" ELSE " "]]

\* the patterns handed to the constructors: the catalog, the sparse ones and
\* the dense ones (a pattern without a filled cell is left out: it makes
\* update_bounding_box read bodies_[0] of an empty sequence)
BuildPatterns ==
    {Patterns[n] : n \in 1..Len(Patterns)}
        \cup {PatternOf(cells) : cells \in
                 {c \in SUBSET AllCells : c # {} /\ Cardinality(c) <= MaxFilled}}
        \cup {PatternOf(AllCells \ blank) : blank \in
                 {c \in SUBSET AllCells : Cardinality(c) <= MaxFilled}}

\* main.cpp, world::update: the least and the greatest origin a spawn draws
RectOrigins ==
    {<<2 * BORDER, WINDOW_HEIGHT>>,
     <<2 * BORDER + (WINDOW_WIDTH - 4 * BORDER - 20 * 4) - 1, WINDOW_HEIGHT>>}

InitBuild ==
    \E pattern \in BuildPatterns :
       /\ heap = <<>>
       /\ factory = <<>>
       /\ pieces = <<>>
       /\ spawn_tic = SPAWN_INTERVAL
       /\ pc = "pattern"
       /\ it = 0
       /\ j = 1
       /\ k = 0
       /\ ticks = 0
       /\ log = [pattern |-> pattern]

\* world.cpp: piece::piece(pattern); log keeps the constructor's locals as
\* they are when it returns
ConstructWorld ==
    /\ pc = "pattern"
    /\ heap' = <<PieceFromPattern(log.pattern, 1)>>
    /\ pieces' = <<1>>
    /\ pc' = "built"
    /\ log' = [pattern |-> log.pattern, grid |-> WorldGrid,
               build |-> BuildCells(EmptyBuild(WorldGrid), 1, log.pattern, 0, WorldGrid)]
    /\ UNCHANGED <<factory, spawn_tic, it, j, k, ticks>>

\* main.cpp: piece::piece(pattern, x_origin, y_origin)
ConstructRect ==
    /\ pc = "pattern"
    /\ \E at \in RectOrigins :
          /\ heap' = <<RectPieceFromPattern(log.pattern, at[1], at[2], 1)>>
          /\ log' = [pattern |-> log.pattern, grid |-> RectGrid(at[1], at[2]),
                     build |-> BuildCells(EmptyBuild(RectGrid(at[1], at[2])), 1,
                                          log.pattern, 0, RectGrid(at[1], at[2]))]
    /\ pieces' = <<1>>
    /\ pc' = "built"
    /\ UNCHANGED <<factory, spawn_tic, it, j, k, ticks>>

NextBuild == ConstructWorld \/ ConstructRect

SpecBuild == InitBuild /\ [][NextBuild]_vars

\* ------------------------------------------------ the spawn, on every draw

\* one rand() result for each remainder the spawn can compute: the type and
\* the horizontal offset
SpawnDraws ==
    (0..(Len(Patterns) - 1)) \X (0..(width - BLOCK_SIZE * MAX_PIECE_COLS - 1))

\* main.cpp: the same for rand()%7 and rand()%(WINDOW_WIDTH - 4*BORDER - 20*4)
RectSpawnDraws ==
    (0..(Len(Patterns) - 1)) \X (0..(WINDOW_WIDTH - 4 * BORDER - 20 * 4 - 1))

\* the update() in which the countdown runs out for the first time, on
\* reaching `if (!--spawn_tic_)': no piece yet, nothing done by the loops
InitSpawn ==
    /\ heap = <<>>
    /\ factory = <<>>
    /\ pieces = <<>>
    /\ spawn_tic = 1
    /\ pc = "spawn"
    /\ it = 0
    /\ j = 1
    /\ k = 0
    /\ ticks = SPAWN_INTERVAL - 1
    /\ log = EmptyLog(0)

SpawnAny == SpawnFrom(SpawnDraws)

\* main.cpp, world::update: `if (!--spawn_tic_) { .. }' and the return; there
\* is no factory, the piece is constructed at its place
RectSpawn ==
    /\ pc = "spawn"
    /\ pc' = "idle_rect"
    /\ ticks' = ticks + 1
    /\ UNCHANGED <<factory, it, j, k>>
    /\ IF ~SpawnDue(spawn_tic)
       THEN /\ spawn_tic' = spawn_tic - 1
            /\ log' = [log EXCEPT !.decremented = TRUE]
            /\ UNCHANGED <<heap, pieces>>
       ELSE \E rnd \in RectSpawnDraws :
              LET x == 2 * BORDER + (rnd[2] % (WINDOW_WIDTH - 4 * BORDER - 20 * 4))
                  y == WINDOW_HEIGHT
                  type == rnd[1] % Len(Patterns)
                  self == Len(heap) + 1
              IN /\ heap' = Append(heap, RectPieceFromPattern(Patterns[type + 1], x, y, self))
                 /\ pieces' = Append(pieces, self)
                 /\ spawn_tic' = SPAWN_INTERVAL
                 /\ log' = [log EXCEPT !.decremented = TRUE, !.spawned = self]

NextSpawn == SpawnAny \/ RectSpawn

SpecSpawn == InitSpawn /\ [][NextSpawn]_vars

\* ----------------------------------------------------- properties of Spec

\* the sequence s is an initial part of the sequence t
IsPrefix(s, t) == Len(s) <= Len(t) /\ \A n \in 1..Len(s) : t[n] = s[n]

\* the cached box of the piece p is exactly the component-wise minimum and
\* maximum of its bodies' positions
TightBox(p) ==
    LET at(b) == p.bodies[b].position
        all == 1..Len(p.bodies)
    IN /\ \A b \in all : /\ p.min_pos.x <= at(b).x /\ at(b).x <= p.max_pos.x
                         /\ p.min_pos.y <= at(b).y /\ at(b).y <= p.max_pos.y
       /\ \E b \in all : at(b).x = p.min_pos.x
       /\ \E b \in all : at(b).y = p.min_pos.y
       /\ \E b \in all : at(b).x = p.max_pos.x
       /\ \E b \in all : at(b).y = p.max_pos.y

\* C1: after n calls of update() on a fresh world the world holds exactly
\* floor(n/30) pieces, and a piece once in the world is never removed or
\* displaced in pieces_.
C1_SpawnCadence ==
    /\ [](Len(pieces) = ticks \div 30)
    /\ [][IsPrefix(pieces, pieces')]_vars

\* C1 witness: sixty calls have returned and the second piece is in the world
C1_Witness == pc = "idle" /\ ticks = 60 /\ Len(pieces) = 2

\* C2: an update() with pieces first integrates every body exactly once, then
\* runs exactly 30 solver passes (each constraining every piece once), then
\* decrements the spawn countdown; no piece is constrained before all are
\* integrated; the piece spawned by a call is neither integrated nor
\* constrained by that call; with no pieces only the countdown step is done.
C2_TickOrdering ==
    LET n == Len(log.upd)
        integrated == \A p \in 1..n : log.upd[p] = 1
    IN /\ (\E p \in 1..n : log.chk[p] > 0) => integrated
       /\ pc = "constraints" => integrated
       /\ (pc = "spawn" \/ (pc = "idle" /\ ticks > 0)) =>
             /\ integrated
             /\ \A p \in 1..n : log.chk[p] = 30
             /\ log.iters = IF n = 0 THEN 0 ELSE 30
       /\ pc = "spawn" => ~log.decremented /\ log.spawned = 0
       /\ (pc = "idle" /\ ticks > 0) =>
             /\ log.decremented
             /\ log.spawned # 0 =>
                   /\ n = Len(pieces) - 1
                   /\ pieces[Len(pieces)] = log.spawned
                   /\ \A b \in 1..Len(heap[log.spawned].bodies) :
                         heap[log.spawned].bodies[b].prev_position
                            = heap[log.spawned].bodies[b].position
             /\ log.spawned = 0 => n = Len(pieces)

\* C2 witness: the call that spawns the second piece has returned; it has
\* integrated and constrained the first piece only
C2_Witness ==
    /\ pc = "idle" /\ ticks = 60 /\ log.spawned # 0
    /\ Len(log.upd) = 1 /\ log.upd[1] = 1 /\ log.chk[1] = 30

\* C2 witness for the empty world: a call has returned having done nothing
\* but the countdown step
C2_WitnessEmpty ==
    pc = "idle" /\ ticks = 1 /\ log.upd = <<>> /\ log.iters = 0 /\ log.decremented

\* C7: right after update_bounding_box() the box of the piece is exactly the
\* component-wise minimum and maximum of its bodies' positions; checked on
\* every step that ends with the call (integration, constraints, a collide
\* that found a collision).
C7_BoundingBoxExact ==
    [][/\ (pc = "integrate" \/ pc = "constraints") => TightBox(heap'[pieces[j]])
       /\ (pc = "collide" /\ log'.collide.refreshed) =>
             TightBox(heap'[pieces[j]]) /\ TightBox(heap'[pieces[k]])]_vars

\* C7 witness: a piece has been integrated away from where it was spawned
\* and its box has followed
C7_Witness ==
    /\ pc = "constraints" /\ it = 0 /\ j = 1 /\ ticks = 30
    /\ TightBox(heap[pieces[1]])
    /\ heap[pieces[1]].min_pos # heap[factory[1]].min_pos
    /\ \E b \in 1..Len(heap[pieces[1]].bodies) :
          heap[pieces[1]].bodies[b].position # heap[pieces[1]].bodies[b].prev_position

\* C8, as the specification states it: whenever update() has returned, the
\* box of every piece of the world is tight. world.cpp does not keep this:
\* the copy constructor copies the prototype's box and move() shifts the
\* bodies without recomputing it.
C8_BoxTightAtReturn ==
    pc = "idle" => \A p \in 1..Len(pieces) : TightBox(heap[pieces[p]])

\* C9: at each entry to piece::collide the boxes of both pieces are tight; on
\* return they are tight again; they are recomputed if and only if at least
\* one quad pair collided.
C9_CollideBoxes ==
    [][pc = "collide" =>
         /\ TightBox(heap[pieces[j]]) /\ TightBox(heap[pieces[k]])
         /\ TightBox(heap'[pieces[j]]) /\ TightBox(heap'[pieces[k]])
         /\ log'.collide.refreshed <=> log'.collide.collided
         /\ ~log'.collide.collided => heap' = heap]_vars

\* C9 witness: a collide() call has found a collision, moved bodies of both
\* pieces and left both boxes tight
C9_Witness ==
    /\ log.collide.collided /\ log.collide.refreshed
    /\ pc \in {"collide", "constraints", "spawn"}
    /\ log.collide.before[1].bodies # heap[log.collide.a].bodies
    /\ log.collide.before[2].bodies # heap[log.collide.b].bodies
    /\ TightBox(heap[log.collide.a]) /\ TightBox(heap[log.collide.b])

\* C11: body::update_position, given position p and prev_position q, sets
\* prev_position to p and position to p + 0.75*(p - q) + (0, -1) (each
\* coordinate to the nearest ulp); a body at rest (p = q) keeps its x and
\* moves down by exactly 1. Checked on every body of every integration step.
C11_VerletStep ==
    [][pc = "integrate" =>
         \A b \in 1..Len(heap[pieces[j]].bodies) :
            LET p == heap[pieces[j]].bodies[b].position
                q == heap[pieces[j]].bodies[b].prev_position
                p1 == heap'[pieces[j]].bodies[b].position
                q1 == heap'[pieces[j]].bodies[b].prev_position
            IN /\ q1 = p
               /\ Abs(4 * (p1.x - p.x) - 3 * (p.x - q.x)) <= 2
               /\ Abs(4 * (p1.y - p.y + SCALE) - 3 * (p.y - q.y)) <= 2
               /\ p = q => p1 = Vec(p.x, p.y - SCALE)]_vars

\* C11 witness: the first integration of a moving piece has been made: some
\* body has moved sideways and by other than the fall of a body at rest
C11_Witness ==
    /\ pc = "constraints" /\ it = 0 /\ j = 1 /\ ticks > 30
    /\ \E b \in 1..Len(heap[pieces[1]].bodies) :
          LET body == heap[pieces[1]].bodies[b]
          IN /\ body.position.x # body.prev_position.x
             /\ body.position.y # body.prev_position.y - SCALE

\* C11 witness for a body at rest: the first integration after a spawn has
\* moved every body of the new piece down by exactly 1
C11_WitnessAtRest ==
    /\ pc = "constraints" /\ it = 0 /\ j = 1 /\ ticks = 30
    /\ \A b \in 1..Len(heap[pieces[1]].bodies) :
          LET body == heap[pieces[1]].bodies[b]
          IN body.position = Vec(body.prev_position.x, body.prev_position.y - SCALE)

\* the rest lengths of the springs of the piece object o, in order
RestLengths(h, o) == [s \in 1..Len(h[o].springs) |-> h[o].springs[s].rest_length]

\* the endpoints of the springs of the piece object o, as body indices
SpringEnds(h, o) ==
    [s \in 1..Len(h[o].springs) |-> <<h[o].springs[s].p0[2], h[o].springs[s].p1[2]>>]

\* every spring of the piece object o has the distance of its endpoints as
\* its rest length
RestIsDistance(h, o) ==
    \A s \in 1..Len(h[o].springs) :
       h[o].springs[s].rest_length
          = length(VSub(Pos(h, h[o].springs[s].p1), Pos(h, h[o].springs[s].p0)))

\* C13: a spring's rest_length is the distance of its endpoints when the
\* spring is constructed and no step of update() changes it; the springs of a
\* spawned piece have the rest lengths of the corresponding springs of a
\* prototype.
C13_RestLengthFixed ==
    [][/\ \A o \in 1..Len(heap) : RestLengths(heap', o) = RestLengths(heap, o)
       /\ \A o \in (1..Len(heap')) \ (1..Len(heap)) : RestIsDistance(heap', o)
       /\ Len(pieces') > Len(pieces) =>
             \E t \in 1..Len(factory') :
                /\ RestLengths(heap', pieces'[Len(pieces')])
                      = RestLengths(heap', factory'[t])
                /\ SpringEnds(heap', pieces'[Len(pieces')])
                      = SpringEnds(heap', factory'[t])]_vars

\* C13 witness: a spawned piece has been deformed by two seconds of updates
\* (a spring is not at its rest length) and still has a prototype's rest
\* lengths
C13_Witness ==
    /\ pc = "idle" /\ ticks = 60
    /\ ~RestIsDistance(heap, pieces[1])
    /\ \E t \in 1..Len(factory) :
          /\ RestLengths(heap, pieces[1]) = RestLengths(heap, factory[t])
          /\ RestIsDistance(heap, factory[t])

\* the body positions that the springs and quads of object o refer to
RefsOf(h, o) ==
    {h[o].springs[s].p0 : s \in 1..Len(h[o].springs)}
        \cup {h[o].springs[s].p1 : s \in 1..Len(h[o].springs)}
        \cup {h[o].quads[q][c] : q \in 1..Len(h[o].quads), c \in 1..4}

\* every reference held by object o is to a body of o itself
OwnsItsRefs(h, o) ==
    \A r \in RefsOf(h, o) : r[1] = o /\ r[2] \in 1..Len(h[o].bodies)

\* C16: every spring endpoint and every quad corner of a piece, prototype or
\* copy, refers to a body of that same piece; an update_positions or a
\* check_constraints call on one piece changes no other piece object; and no
\* step of update() changes a prototype of the factory.
C16_NoSharing ==
    /\ [](\A o \in 1..Len(heap) : OwnsItsRefs(heap, o))
    /\ [][/\ pc \in {"integrate", "constraints"} =>
                \A o \in 1..Len(heap) : o # pieces[j] => heap'[o] = heap[o]
          /\ \A t \in 1..Len(factory) : heap'[factory[t]] = heap[factory[t]]]_vars

\* C16 witness: two copies of prototypes have collided and been moved, and the
\* prototypes are as they were constructed
C16_Witness ==
    /\ factory # <<>> /\ Len(pieces) = 2
    /\ log.collide.collided
    /\ \A o \in {pieces[1], pieces[2]} : heap[o].quads # <<>> /\ OwnsItsRefs(heap, o)
    /\ \A t \in 1..Len(factory) :
          heap[factory[t]] = PieceFromPattern(Patterns[t], factory[t])
    /\ \A o \in {pieces[1], pieces[2]}, t \in 1..Len(factory) :
          heap[o].bodies # heap[factory[t]].bodies


\* the filled cells of a pattern
FilledCells(pattern) ==
    {<<r, c>> \in (1..MAX_PIECE_ROWS) \X (1..MAX_PIECE_COLS) : pattern[r][c] = "#"}

\* C20: the catalog has 7 patterns, each with at least one filled cell, and
\* every piece object, prototype or spawned, has at least one body, so that
\* update_bounding_box never reads bodies_[0] of an empty sequence.
C20_NonEmptyPieces ==
    /\ Len(Patterns) = 7
    /\ \A t \in 1..Len(Patterns) : FilledCells(Patterns[t]) # {}
    /\ \A o \in 1..Len(heap) : Len(heap[o].bodies) >= 1

\* C20 witness: check_constraints has refreshed the bounding box of a spawned
\* piece, and the seven prototypes have been constructed
C20_Witness ==
    /\ Len(factory) = 7 /\ pieces # <<>>
    /\ \A t \in 1..Len(factory) : Len(heap[factory[t]].bodies) >= 4
    /\ Len(log.chk) >= 1 /\ log.chk[1] >= 1
    /\ Len(heap[pieces[1]].bodies) >= 4
    /\ TightBox(heap[pieces[1]])


\* the constraint phase as the code runs it: check_constraints piece by piece
RECURSIVE PieceByPiece(_, _, _)
PieceByPiece(h, ps, n) ==
    IF n > Len(ps) THEN h
    ELSE Bind(check_constraints(h, ps[n], width, height),
              LAMBDA g : PieceByPiece(g, ps, n + 1))

\* the springs of all pieces relaxed, piece after piece
RECURSIVE AllSprings(_, _, _)
AllSprings(h, ps, n) ==
    IF n > Len(ps) THEN h
    ELSE Bind(RelaxSprings(h, h[ps[n]].springs, 1),
              LAMBDA g : AllSprings(g, ps, n + 1))

\* the bowl's walls applied to all bodies of all pieces, each piece's box
\* recomputed
AllWalls(h, ps) ==
    [o \in 1..Len(h) |->
        IF \E n \in 1..Len(ps) : ps[n] = o
        THEN update_bounding_box(
               [h[o] EXCEPT !.bodies =
                  [b \in 1..Len(h[o].bodies) |->
                      [h[o].bodies[b] EXCEPT
                         !.position = WallStep(h[o].bodies[b].position, width)]]])
        ELSE h[o]]

\* C22: at the start of the constraint phase of a solver iteration, running
\* check_constraints piece by piece (springs then walls of each piece in
\* turn) gives the state that relaxing all springs of all pieces and then
\* applying the walls to all bodies of all pieces gives.
C22_ConstraintPhase ==
    (pc = "constraints" /\ j = 1) =>
        PieceByPiece(heap, pieces, 1) = AllWalls(AllSprings(heap, pieces, 1), pieces)

\* C22 witness: a constraint phase over two pieces in which the walls move
\* bodies of the first piece and the springs move bodies of the second
C22_Witness ==
    /\ pc = "constraints" /\ j = 1 /\ Len(pieces) = 2
    /\ LET sprung == AllSprings(heap, pieces, 1)
           done == PieceByPiece(heap, pieces, 1)
       IN /\ sprung[pieces[2]].bodies # heap[pieces[2]].bodies
          /\ sprung[pieces[1]].bodies # heap[pieces[1]].bodies
          /\ done[pieces[1]].bodies # sprung[pieces[1]].bodies
          /\ done[pieces[2]].bodies # sprung[pieces[2]].bodies


\* C27: at every return from update(), and in the initial state, the spawn
\* countdown satisfies 1 <= spawn_tic_ <= SPAWN_INTERVAL (30); every update()
\* decrements it by exactly one and resets it to 30 in the same call in which
\* it reaches zero, so that it is never seen at zero or below between calls.
C27_CountdownRange ==
    /\ SPAWN_INTERVAL = 30
    /\ [](1 <= spawn_tic /\ spawn_tic <= SPAWN_INTERVAL)
    /\ [][IF pc = "spawn" /\ pc' = "idle"
          THEN \/ spawn_tic > 1 /\ spawn_tic' = spawn_tic - 1
               \/ spawn_tic = 1 /\ spawn_tic' = SPAWN_INTERVAL
          ELSE spawn_tic' = spawn_tic]_vars

\* the countdown is seen at its least value for the second time
C27_Witness == pc = "idle" /\ ticks = 2 * SPAWN_INTERVAL - 1 /\ spawn_tic = 1

\* the call after that has reset it
C27_WitnessReset ==
    pc = "idle" /\ ticks = 2 * SPAWN_INTERVAL /\ spawn_tic = SPAWN_INTERVAL

\* the prev_position of every body of the object o, in body order
PrevPositions(h, o) == [b \in 1..Len(h[o].bodies) |-> h[o].bodies[b].prev_position]

Positions(h, o) == [b \in 1..Len(h[o].bodies) |-> h[o].bodies[b].position]

\* C28: prev_position is written only by update_position (integration) and by
\* move (at spawn): spring relaxation, bowl clamping and collision response
\* change position only, so that from the end of the integration step to the
\* return of update() the prev_position of every body is its position from
\* before that update() call.
C28_PrevPositionFrame ==
    /\ [](pc \in {"constraints", "collide", "spawn"} /\ pieces # <<>>
           => \A n \in 1..Len(pieces) :
                 PrevPositions(heap, pieces[n]) = Positions(log.entry, pieces[n]))
    /\ [](pc = "idle"
           => \A n \in 1..Len(pieces) :
                 IF pieces[n] = log.spawned
                 THEN PrevPositions(heap, pieces[n]) = Positions(heap, pieces[n])
                 ELSE PrevPositions(heap, pieces[n]) = Positions(log.entry, pieces[n]))
    /\ [][pc # "integrate"
            => \A o \in 1..Len(heap) : PrevPositions(heap', o) = PrevPositions(heap, o)]_vars

\* springs, the bowl and a collision response have moved the bodies of the
\* first piece since the integration of this update()
C28_Witness ==
    /\ pc = "spawn"
    /\ Len(pieces) = 2
    /\ log.collide.collided
    /\ log.iters = NUM_ITERATIONS
    /\ PrevPositions(heap, pieces[1]) = Positions(log.entry, pieces[1])
    /\ Positions(heap, pieces[1]) # Positions(<<update_positions(log.entry[pieces[1]])>>, 1)

\* ------------------------------------------------ properties of SpecLong

\* the index pairs a < b up to n
IndexPairs(n) == {pr \in (1..n) \X (1..n) : pr[1] < pr[2]}

\* pr comes before qr in lexicographic order
LexBefore(pr, qr) == pr[1] < qr[1] \/ (pr[1] = qr[1] /\ pr[2] < qr[2])

\* the index pairs a < b up to n in lexicographic order
LexPairs(n) ==
    [i \in 1..Cardinality(IndexPairs(n)) |->
        CHOOSE pr \in IndexPairs(n) :
            Cardinality({qr \in IndexPairs(n) : LexBefore(qr, pr)}) = i - 1]

\* C23: in each solver iteration check_constraints has run for every piece
\* before the first collide call; collide is then called once for every index
\* pair j < k in lexicographic order, on two different pieces each time; with
\* one piece no collide call is made.
C23_AllPairsDispatch ==
    /\ [](LET n == Len(log.chk)
              all == LexPairs(n)
          IN /\ pc = "collide" =>
                   /\ n >= 2
                   /\ \A p \in 1..n : log.chk[p] = log.iters + 1
                   /\ IsPrefix(log.pairs, all)
                   /\ Len(log.pairs) < Len(all)
                   /\ all[Len(log.pairs) + 1] = <<j, k>>
             /\ (pc # "collide" /\ log.iters >= 1) => log.pairs = all
             /\ n = 1 => pc # "collide" /\ log.pairs = <<>>)
    /\ [][pc = "collide" =>
             /\ log'.collide.a = pieces[j] /\ log'.collide.b = pieces[k]
             /\ pieces[j] # pieces[k]
             /\ log'.pairs = Append(log.pairs, <<j, k>>)]_vars

\* C23 witness: a solver iteration over three pieces has made its three
\* collide calls
C23_Witness ==
    /\ Len(pieces) = 3 /\ log.iters >= 1 /\ pc = "constraints"
    /\ log.pairs = << <<1, 2>>, <<1, 3>>, <<2, 3>> >>
    /\ log.collide.a = pieces[2] /\ log.collide.b = pieces[3]

\* C23 witness for one piece: an update() with one piece has finished its
\* solver iterations without a collide call
C23_WitnessOnePiece ==
    /\ Len(log.chk) = 1 /\ pc = "spawn" /\ log.iters = NUM_ITERATIONS
    /\ log.pairs = <<>> /\ log.collide.a = 0

\* ------------------------------------------------ properties of SpecQuads

\* the quads given to the tests, and the positions they were given
Q0 == log.before[1].quads[1]

Q1 == log.before[2].quads[1]

\* the e-th axis of the claimed order: the four edges of q0, p0p1 p1p2 p2p3
\* p3p0, then the four edges of q1
ClaimedEdge(e) ==
    IF e <= 4 THEN <<Q0[e], Q0[(e % 4) + 1]>>
    ELSE <<Q1[e - 4], Q1[((e - 4) % 4) + 1]>>

\* the projections of both quads on the e-th axis
ClaimedIntervals(e) ==
    LET n == EdgeNormal(Pos(log.before, ClaimedEdge(e)[1]),
                        Pos(log.before, ClaimedEdge(e)[2]))
    IN <<project_quad_to_axis(log.before, n, Q0),
         project_quad_to_axis(log.before, n, Q1)>>

\* s0.max < s1.min + 1e-5 || s1.max < s0.min + 1e-5 on the e-th axis
ClaimedSeparating(e) ==
    LET s == ClaimedIntervals(e)
    IN LtPlusEps(s[1][2], s[2][1]) \/ LtPlusEps(s[2][2], s[1][1])

\* the intervals on the e-th axis end where the other begins
ClaimedTouching(e) ==
    LET s == ClaimedIntervals(e)
    IN s[1][2] = s[2][1] \/ s[2][2] = s[1][1]

QuadsTested == pc = "tested" \/ pc = "swapped"

\* C3: quad_collision tests the 8 axes in the order q0's four edges, then
\* q1's; it reports no collision at the first axis on which the projections
\* are separated (s0.max < s1.min + 1e-5 or s1.max < s0.min + 1e-5) and
\* tests no axis after it; it reports a collision exactly when no axis
\* separates; intervals that merely touch count as separated.
C3_SeparatingAxes ==
    LET seps == {e \in 1..8 : ClaimedSeparating(e)}
    IN QuadsTested =>
         /\ log.r1.collided <=> seps = {}
         /\ seps = {} => log.r1.axes = 8
         /\ seps # {} => /\ log.r1.axes \in seps
                         /\ \A e \in seps : log.r1.axes <= e
         /\ (\E e \in 1..8 : ClaimedTouching(e)) => ~log.r1.collided

\* C3 witness: a square and a diamond that none of the square's axes
\* separates and an axis of the diamond does
C3_Witness ==
    /\ pc = "tested" /\ ~log.r1.collided /\ log.r1.axes > 4
    /\ \A e \in 1..4 : ~ClaimedSeparating(e)

\* C3 witness for touching: two unit squares side by side, the second at
\* x-offset exactly 1, are reported apart
C3_WitnessTouching ==
    /\ pc = "tested" /\ ~log.r1.collided
    /\ log.shape0 = "square" /\ log.shape1 = "square"
    /\ log.offset = Vec(SCALE, 0)
    /\ \E e \in 1..8 : ClaimedTouching(e)

\* C4: on the same positions quad_collision(q0, q1) and quad_collision(q1, q0)
\* report the same boolean.
C4_SatSymmetric ==
    pc = "swapped" => (log.r1.collided <=> log.r2.collided)

\* C4 witness: a square and a diamond tested both ways, colliding
C4_Witness ==
    /\ pc = "swapped" /\ log.shape0 # log.shape1
    /\ log.r1.collided /\ log.r2.collided
    /\ log.r1.push_vector # Vec(0, 0)

\* C4 witness: two different quads tested both ways, apart
C4_WitnessApart ==
    /\ pc = "swapped" /\ log.shape0 # log.shape1
    /\ ~log.r1.collided /\ ~log.r2.collided

UnitSquares ==
    log.shape0 \in {"square", "square_cw"} /\ log.shape1 \in {"square", "square_cw"}

\* C5: for two axis-aligned unit squares, an x-offset greater than 1 gives no
\* collision; the x-offset 0.5 (and no y-offset) gives a collision whose push
\* vector lies along x, points from q0 to q1 and has magnitude 0.15 (here:
\* within one ulp of 0.15, the half offset being SCALE \div 2 ulps).
C5_UnitSquares ==
    (QuadsTested /\ UnitSquares) =>
        /\ log.offset.x > SCALE => ~log.r1.collided
        /\ log.offset = Vec(SCALE \div 2, 0) =>
              /\ log.r1.collided
              /\ log.r1.push_vector.y = 0
              /\ log.r1.push_vector.x > 0
              /\ Abs(100 * log.r1.push_vector.x - 15 * SCALE) <= 100

\* C5 witness: the half-offset case has been tested and q1 has been pushed
\* towards +x
C5_Witness ==
    /\ pc = "tested" /\ UnitSquares /\ log.offset = Vec(SCALE \div 2, 0)
    /\ log.r1.collided
    /\ Pos(heap, Q1[1]).x > Pos(log.before, Q1[1]).x

\* C5 witness: an x-offset greater than 1 has been tested
C5_WitnessApart ==
    pc = "tested" /\ UnitSquares /\ log.offset.x > SCALE /\ ~log.r1.collided

\* C6: when the test reports a collision, each corner of q0 has moved by
\* exactly -push_vector and each corner of q1 by exactly +push_vector, so the
\* sum of the eight corner positions is unchanged; no prev_position is
\* touched. A test that reports no collision moves nothing.
C6_PushResponse ==
    LET pv == log.r1.push_vector
        corners == {Q0[c] : c \in 1..4} \cup {Q1[c] : c \in 1..4}
        SumOf(h) ==
            LET at(c) == Pos(h, Q0[c])
                bt(c) == Pos(h, Q1[c])
            IN VAdd(VAdd(VAdd(at(1), at(2)), VAdd(at(3), at(4))),
                    VAdd(VAdd(bt(1), bt(2)), VAdd(bt(3), bt(4))))
    IN pc = "tested" =>
         /\ log.r1.collided =>
               /\ \A c \in 1..4 :
                     /\ Pos(heap, Q0[c]) = VSub(Pos(log.before, Q0[c]), pv)
                     /\ Pos(heap, Q1[c]) = VAdd(Pos(log.before, Q1[c]), pv)
               /\ SumOf(heap) = SumOf(log.before)
         /\ \A r \in corners :
               heap[r[1]].bodies[r[2]].prev_position
                  = log.before[r[1]].bodies[r[2]].prev_position
         /\ ~log.r1.collided => heap = log.before

\* C6 witness: a collision has been resolved with a push that moved both quads
C6_Witness ==
    /\ pc = "tested" /\ log.r1.collided /\ log.r1.push_vector # Vec(0, 0)
    /\ Pos(heap, Q0[1]) # Pos(log.before, Q0[1])
    /\ Pos(heap, Q1[1]) # Pos(log.before, Q1[1])

\* the boxes of the two pieces are strictly separated on the x or the y axis
BoxesStrictlyApart ==
    LET a == log.before[1]
        b == log.before[2]
    IN \/ a.max_pos.x < b.min_pos.x \/ b.max_pos.x < a.min_pos.x
       \/ a.max_pos.y < b.min_pos.y \/ b.max_pos.y < a.min_pos.y

\* the boxes of the two pieces share a boundary coordinate and no more
BoxesTouch ==
    LET a == log.before[1]
        b == log.before[2]
    IN ~BoxesStrictlyApart /\
       (\/ a.max_pos.x = b.min_pos.x \/ b.max_pos.x = a.min_pos.x
        \/ a.max_pos.y = b.min_pos.y \/ b.max_pos.y = a.min_pos.y)

\* C10: piece::collide returns at once, testing no quad pair and changing
\* nothing, when the boxes are strictly separated on x or y; boxes that
\* touch are not rejected (every quad pair is tested); and whenever no quad
\* pair collides, positions, prev_positions and boxes are unchanged.
C10_BroadPhase ==
    pc = "collided" =>
        /\ BoxesStrictlyApart => (log.r1.tests = 0 /\ heap = log.before)
        /\ ~BoxesStrictlyApart =>
              log.r1.tests = Len(log.before[1].quads) * Len(log.before[2].quads)
        /\ ~log.r1.collided => heap = log.before

\* C10 witness: two pieces whose boxes touch went on to the quad tests, which
\* found no collision and changed nothing
C10_Witness ==
    /\ pc = "collided" /\ BoxesTouch
    /\ log.r1.tests = 1 /\ ~log.r1.collided /\ heap = log.before

\* C10 witness: two pieces with strictly separated boxes were rejected
C10_WitnessRejected ==
    pc = "collided" /\ BoxesStrictlyApart /\ log.r1.tests = 0 /\ heap = log.before

\* the scaled push of the e-th axis of the quad test
ClaimedQuadPush(e) ==
    LET s == ClaimedIntervals(e)
        n == EdgeNormal(Pos(log.before, ClaimedEdge(e)[1]),
                        Pos(log.before, ClaimedEdge(e)[2]))
        near == s[1][2] - s[2][1] < s[2][2] - s[1][1]
        len == RoundDiv(FRICTION_NUM * (IF near THEN s[1][2] - s[2][1]
                                                ELSE s[2][2] - s[1][1]),
                        2 * FRICTION_DEN)
    IN [push_length |-> len,
        push |-> ScaledPush(IF near THEN n ELSE VNeg(n), len)]

\* the candidate after e axes of the quad test, chosen as C21 claims
RECURSIVE ClaimedQuadCandidate(_)
ClaimedQuadCandidate(e) ==
    IF e = 1 THEN ClaimedQuadPush(1).push
    ELSE LET before == ClaimedQuadCandidate(e - 1)
             mine == ClaimedQuadPush(e)
         IN IF mine.push_length * mine.push_length < length_squared(before)
            THEN mine.push ELSE before

\* C21 for the quad test of world.cpp: the push vector of a reported
\* collision is the candidate chosen over the eight axes by comparing squared
\* lengths, and no axis has a scaled push more than one ulp shorter.
C21_QuadPushSelection ==
    (QuadsTested /\ log.r1.collided) =>
        /\ log.r1.push_vector = ClaimedQuadCandidate(8)
        /\ \A e \in 1..8 :
              length_squared(log.r1.push_vector) <=
                 (ClaimedQuadPush(e).push_length + 1) * (ClaimedQuadPush(e).push_length + 1)

\* two axes tie and the earlier one is kept: unit squares offset by half a
\* unit both ways
C21_QuadWitnessTie ==
    /\ pc = "tested" /\ log.r1.collided
    /\ log.shape0 = "square" /\ log.shape1 = "square"
    /\ log.offset = Vec(SCALE \div 2, SCALE \div 2)
    /\ ClaimedQuadPush(1).push_length = ClaimedQuadPush(2).push_length
    /\ ClaimedQuadPush(1).push # ClaimedQuadPush(2).push
    /\ log.r1.push_vector = ClaimedQuadPush(1).push


\* ------------------------------------------------ properties of SpecParts

\* the endpoints of the spring as they were drawn, and as they are
SpringStart == <<log.before[1].bodies[1].position, log.before[1].bodies[2].position>>

SpringNow == <<heap[1].bodies[1].position, heap[1].bodies[2].position>>

SpringRest == heap[1].springs[1].rest_length

\* C12: for a spring of length l > 0 one relaxation moves p0 by +f*dir and p1
\* by -f*dir with f = 0.5*(l - L)/l (to the nearest ulp), so the midpoint of
\* the endpoints is unchanged and, the spring being alone, the endpoint
\* distance is L after the step (to within 2 ulps); further relaxations keep
\* the midpoint and the distance.
C12_SpringRelaxation ==
    LET dir == VSub(SpringStart[2], SpringStart[1])
        l == length(dir)
        c == VSub(SpringNow[1], SpringStart[1])
    IN (pc = "relaxed" /\ SpringStart[1] # SpringStart[2]) =>
          /\ VAdd(SpringNow[1], SpringNow[2]) = VAdd(SpringStart[1], SpringStart[2])
          /\ Abs(length(VSub(SpringNow[2], SpringNow[1])) - SpringRest)
                <= 2
          /\ it = 1 => /\ Abs(2 * l * c.x - (l - SpringRest) * dir.x) <= l
                       /\ Abs(2 * l * c.y - (l - SpringRest) * dir.y) <= l

\* C12 witness: a stretched spring has been relaxed MaxRelax times and both
\* its endpoints have moved
C12_Witness ==
    /\ pc = "relaxed" /\ it = MaxRelax
    /\ length(VSub(SpringStart[2], SpringStart[1])) > 2 * SpringRest
    /\ SpringNow[1] # SpringStart[1] /\ SpringNow[2] # SpringStart[2]

\* C12 witness: a compressed spring has been relaxed
C12_WitnessCompressed ==
    /\ pc = "relaxed" /\ SpringStart[1] # SpringStart[2]
    /\ 2 * length(VSub(SpringStart[2], SpringStart[1])) < SpringRest
    /\ SpringNow[1] # SpringStart[1]

\* the bowl's radius and the right wall, in ulps
BowlRadius == RoundDiv(width * SCALE, 2)

RightWall == width * SCALE

\* the wall step has treated the body that stood at p and now stands at p1 as
\* the claim says
ClampedAsClaimed(p, p1) ==
    LET d == VSub(p, Vec(BowlRadius, BowlRadius))
        r == length(d)
        m == VSub(p, p1)
    IN IF p.y > BowlRadius
       THEN /\ p1.y = p.y
            /\ p.x < 0 => Abs(5 * (p1.x - p.x) - 3 * (0 - p.x)) <= 2
            /\ p.x > RightWall => Abs(5 * (p1.x - p.x) - 3 * (RightWall - p.x)) <= 2
            /\ (0 <= p.x /\ p.x <= RightWall) => p1 = p
       ELSE /\ length_squared(d) <= BowlRadius * BowlRadius => p1 = p
            /\ length_squared(d) > BowlRadius * BowlRadius =>
                  /\ r > 0
                  /\ Abs(5 * length(m) - 3 * (r - BowlRadius)) <= 10
                  /\ Abs(m.x * d.y - m.y * d.x) <= Abs(d.x) + Abs(d.y)
                  /\ m.x * d.x + m.y * d.y >= 0

\* C15: with R = width/2, the wall step leaves the y of a body with y > R
\* alone and corrects its x by FRICTION times the penetration (towards 0 when
\* x < 0, towards width when x > width); a body with y <= R is moved towards
\* (R, R) along the radius by FRICTION*(r - R) when r > R and is otherwise
\* unchanged; the radial branch divides by r > 0. Coordinates to the nearest
\* ulp, the radial distance to within 2 ulps.
C15_BowlClamp ==
    pc = "walled" =>
       \A b \in 1..Len(heap[1].bodies) :
          /\ ClampedAsClaimed(log.before[1].bodies[b].position,
                              heap[1].bodies[b].position)
          /\ heap[1].bodies[b].prev_position = log.before[1].bodies[b].prev_position

\* C15 witness: a body below the centre line and outside the bowl has been
\* moved towards the centre in both coordinates
C15_Witness ==
    /\ pc = "walled"
    /\ log.before[1].bodies[2].position.y <= BowlRadius
    /\ heap[1].bodies[2].position.x # log.before[1].bodies[2].position.x
    /\ heap[1].bodies[2].position.y # log.before[1].bodies[2].position.y

\* C15 witness: a body above the centre line and beyond the right wall has
\* had its x corrected and its y kept; one inside the walls was left alone
C15_WitnessUpper ==
    /\ pc = "walled"
    /\ log.before[1].bodies[2].position.y > BowlRadius
    /\ log.before[1].bodies[2].position.x > RightWall
    /\ heap[1].bodies[2].position.x < log.before[1].bodies[2].position.x
    /\ heap[1].bodies[2].position.y = log.before[1].bodies[2].position.y

\* C18: normalize() leaves a vector of length at most 1e-5 unchanged, the zero
\* vector included, and scales a longer one to unit length in its own
\* direction; the division is by a length above 1e-5. A vector is taken as
\* longer when its length exceeds 1e-5 by at least one unit of its resolution.
C18_NormalizePolicy ==
    LET v == log.normal.v
        out == log.normal.out
        eps == log.normal.unit \div EPSILON_INV
        l == length(v)
    IN pc = "normalized" =>
          /\ length_squared(v) <= eps * eps =>
                out = [unit |-> log.normal.unit, x |-> v.x, y |-> v.y]
          /\ length_squared(v) >= (eps + 1) * (eps + 1) =>
                /\ l > 0
                /\ out.unit = NSCALE
                /\ Abs(length(Vec(out.x, out.y)) - NSCALE) <= 2 + NSCALE \div l
                /\ Abs(out.x * v.y - out.y * v.x) <= Abs(v.x) + Abs(v.y)
                /\ out.x * v.x + out.y * v.y > 0

\* C18 witness: a non-zero vector of length exactly 1e-5 has been left alone
C18_Witness ==
    /\ pc = "normalized" /\ log.normal.unit = FineUnit
    /\ log.normal.v # Vec(0, 0)
    /\ length_squared(log.normal.v) = (FineUnit \div EPSILON_INV) * (FineUnit \div EPSILON_INV)
    /\ log.normal.out = [unit |-> FineUnit, x |-> log.normal.v.x, y |-> log.normal.v.y]

\* C18 witness: a vector just longer than 1e-5 has been scaled to unit length
C18_WitnessScaled ==
    /\ pc = "normalized" /\ log.normal.unit = FineUnit
    /\ log.normal.v = Vec(1 + FineUnit \div EPSILON_INV, 0)
    /\ log.normal.out = [unit |-> NSCALE, x |-> NSCALE, y |-> 0]

\* C18 witness: the zero vector has been left alone
C18_WitnessZero ==
    /\ pc = "normalized" /\ log.normal.v = Vec(0, 0)
    /\ log.normal.out.x = 0 /\ log.normal.out.y = 0

\* C19: the spring loop makes no test for l = 0: when the two endpoints of a
\* spring coincide, a relaxation leaves neither endpoint where it was but
\* gives both a non-finite position.
C19_ZeroLengthSpring ==
    (pc = "relaxed" /\ SpringStart[1] = SpringStart[2]) =>
        /\ SpringNow[1] = Vec(NonFinite, NonFinite)
        /\ SpringNow[2] = Vec(NonFinite, NonFinite)

\* C19 witness: a spring whose endpoints coincided has been relaxed once
C19_Witness ==
    /\ pc = "relaxed" /\ it = 1 /\ SpringStart[1] = SpringStart[2]
    /\ SpringNow[1] # SpringStart[1] /\ SpringNow[2] # SpringStart[2]

\* ------------------------------------------- properties of SpecTriangles

\* the triangles given to the test, with their bounding circles
T0 == log.before[1].triangles[1]

T1 == log.before[1].triangles[2]

\* the scaled push of the e-th axis tested: its length .5*FRICTION*overlap
\* and the vector of that length along the axis, towards the second shape
ClaimedTrianglePush(e) ==
    LET edge == TriangleEdges(T0, T1)[e]
        n == EdgeNormal(Pos(log.before, edge[1]), Pos(log.before, edge[2]))
        s0 == project_triangle_to_axis(log.before, n, T0)
        s1 == project_triangle_to_axis(log.before, n, T1)
        near == s0[2] - s1[1] < s1[2] - s0[1]
        len == RoundDiv(FRICTION_NUM * (IF near THEN s0[2] - s1[1] ELSE s1[2] - s0[1]),
                        2 * FRICTION_DEN)
    IN [push_length |-> len,
        push |-> ScaledPush(IF near THEN n ELSE VNeg(n), len)]

\* the candidate after e axes as claimed: the first axis sets it, a later
\* axis replaces it exactly when the square of its scaled push is strictly
\* smaller than the squared length of the candidate
RECURSIVE ClaimedTriangleCandidate(_)
ClaimedTriangleCandidate(e) ==
    IF e = 1 THEN ClaimedTrianglePush(1).push
    ELSE LET before == ClaimedTriangleCandidate(e - 1)
             mine == ClaimedTrianglePush(e)
         IN IF mine.push_length * mine.push_length < length_squared(before)
            THEN mine.push ELSE before

\* C21 (as claimed, triangle test): when the triangle test reports a
\* collision, its push vector is the candidate chosen over the six axes by
\* comparing squared lengths.
C21_PushSelection ==
    (pc = "tested" /\ log.r1.collided) =>
        log.r1.push_vector = ClaimedTriangleCandidate(6)

\* ------------------------------------------------ properties of SpecRect

\* the step from coordinate c to c1 takes FRICTION times the penetration pen
\* (> 0) off it, to the nearest ulp: the penetration left is 0.4 of it, the
\* wall is not passed, and is reached only from one ulp away
SoftCorrection(pen, left) ==
    /\ Abs(5 * left - 2 * pen) <= 2
    /\ left >= 0
    /\ pen > 1 => left > 0

\* C24: one wall step of the rectangular variant changes x only when x is
\* left of the left wall or right of the right wall and y only when y is
\* below top_wall_y, each by FRICTION times the penetration towards the wall
\* (to the nearest ulp), which leaves 0.4 of the penetration and does not
\* carry the body to the wall from more than an ulp away, nor past it; a
\* body within the walls is unchanged; nothing is done for y > bottom_wall_y;
\* prev_position is not written.
C24_RectWallStep ==
    [][(pc = "rect" /\ it' = it + 1) =>
         \A b \in 1..Len(heap[1].bodies) :
            LET p == heap[1].bodies[b].position
                q == heap'[1].bodies[b].position
            IN /\ (left_wall_x <= p.x /\ p.x <= right_wall_x) => q.x = p.x
               /\ p.x < left_wall_x => SoftCorrection(left_wall_x - p.x, left_wall_x - q.x)
               /\ p.x > right_wall_x => SoftCorrection(p.x - right_wall_x, q.x - right_wall_x)
               /\ p.y >= top_wall_y => q.y = p.y
               /\ p.y < top_wall_y => SoftCorrection(top_wall_y - p.y, top_wall_y - q.y)
               /\ heap'[1].bodies[b].prev_position = heap[1].bodies[b].prev_position]_vars

\* C24 witness: a body five units left of the left wall and above the bottom
\* wall has taken one wall step: x has moved three units, y has not moved
C24_Witness ==
    /\ pc = "rect" /\ it = 1
    /\ log.before[1].bodies[1].position = Vec(-5 * SCALE, 250 * SCALE)
    /\ heap[1].bodies[1].position.x < left_wall_x
    /\ heap[1].bodies[1].position.x > -5 * SCALE
    /\ heap[1].bodies[1].position.y = 250 * SCALE

\* ------------------------------------------------- properties of SpecBuild

\* the lattice corners of the cell (r, c), in the order v0, v1, v2, v3
CellCorners(cell) ==
    << <<cell[1] - 1, cell[2] - 1>>, <<cell[1] - 1, cell[2]>>,
       <<cell[1], cell[2]>>, <<cell[1], cell[2] - 1>> >>

\* where the grid puts the lattice corner (i, j)
CornerAt(grid, corner) ==
    Vec(grid.origin.x + corner[2] * grid.spacing,
        grid.origin.y + corner[1] * grid.spacing)

\* the lattice corners touched by a filled cell
TouchedCorners(pattern) ==
    UNION {{CellCorners(cell)[n] : n \in 1..4} : cell \in FilledCells(pattern)}

\* the pairs of corners joined by the 4 edges and 2 diagonals of a cell
CellPairs(cell) ==
    LET v == CellCorners(cell)
    IN {{v[1], v[2]}, {v[2], v[3]}, {v[3], v[4]}, {v[4], v[1]},
        {v[1], v[3]}, {v[2], v[4]}}

ClaimedPairs(pattern) == UNION {CellPairs(cell) : cell \in FilledCells(pattern)}

\* the cells are those of a 2x2 square
IsSquare(cells) ==
    \E r \in 1..(MAX_PIECE_ROWS - 1), c \in 1..(MAX_PIECE_COLS - 1) :
       cells = {<<r, c>>, <<r, c + 1>>, <<r + 1, c>>, <<r + 1, c + 1>>}

\* C25: for a 4x4 pattern, construction creates exactly one body per distinct
\* lattice corner touched by a filled cell, exactly one quad per filled cell
\* whose four corners are that cell's corner bodies, and exactly one spring per
\* distinct unordered pair of bodies among each cell's 4 edges and 2 diagonals;
\* the 2x2 square pattern yields 9 bodies, 20 springs and 4 quads.
C25_Construction ==
    pc = "built" =>
      LET p == heap[1]
          grid == log.grid
          cells == FilledCells(log.pattern)
          corners == TouchedCorners(log.pattern)
          pairs == ClaimedPairs(log.pattern)
          at(r) == Pos(heap, r)
      IN /\ Len(p.bodies) = Cardinality(corners)
         /\ \A corner \in corners :
               Cardinality({b \in 1..Len(p.bodies) :
                              p.bodies[b].position = CornerAt(grid, corner)}) = 1
         /\ Len(p.quads) = Cardinality(cells)
         /\ \A cell \in cells :
               Cardinality({q \in 1..Len(p.quads) :
                              \A n \in 1..4 :
                                 /\ p.quads[q][n][1] = 1
                                 /\ at(p.quads[q][n])
                                      = CornerAt(grid, CellCorners(cell)[n])}) = 1
         /\ Len(p.springs) = Cardinality(pairs)
         /\ \A pair \in pairs :
               Cardinality({s \in 1..Len(p.springs) :
                              /\ p.springs[s].p0[1] = 1
                              /\ p.springs[s].p1[1] = 1
                              /\ {at(p.springs[s].p0), at(p.springs[s].p1)}
                                   = {CornerAt(grid, corner) : corner \in pair}}) = 1
         /\ (IsSquare(cells)
               => /\ Len(p.bodies) = 9
                  /\ Len(p.springs) = 20
                  /\ Len(p.quads) = 4)

\* the 2x2 square of the catalog has been constructed by world.cpp
C25_Witness ==
    /\ pc = "built"
    /\ log.grid = WorldGrid
    /\ log.pattern = Patterns[1]
    /\ IsSquare(FilledCells(log.pattern))
    /\ Len(heap[1].springs) = 20

\* the same by main.cpp
C25_WitnessRect ==
    /\ pc = "built"
    /\ log.grid.spacing = RECT_SPACING * SCALE
    /\ IsSquare(FilledCells(log.pattern))
    /\ Len(heap[1].bodies) = 9

\* a pattern of two cells that touch in one corner only: 7 bodies
C25_WitnessDiagonal ==
    /\ pc = "built"
    /\ FilledCells(log.pattern) = {<<1, 1>>, <<2, 2>>}
    /\ Len(heap[1].bodies) = 7
    /\ Len(heap[1].springs) = 12

\* C29: for every 4x4 pattern the number of bodies created never exceeds the
\* capacity reserved before the first body is added, (MAX_PIECE_ROWS + 1) *
\* (MAX_PIECE_COLS + 1) = 25 in world.cpp and 32 in main.cpp, so that bodies_
\* never reallocates while springs and quads holding references to body
\* positions are being created.
C29_NoReallocation ==
    /\ WorldGrid.reserve = 25
    /\ RectGrid(0, 0).reserve = 32
    /\ (pc = "built"
          => /\ Len(log.build.bodies) <= log.grid.reserve
             /\ Len(log.build.bodies) <= Cardinality(TouchedCorners(PatternOf(AllCells)))
             /\ log.build.capacity = log.grid.reserve
             /\ ~log.build.reallocated
             /\ log.build.bodies = heap[1].bodies)

\* world.cpp has constructed the pattern with every cell filled: the bodies
\* take up the whole of the reserved capacity
C29_Witness ==
    /\ pc = "built"
    /\ log.grid = WorldGrid
    /\ FilledCells(log.pattern) = AllCells
    /\ Len(heap[1].bodies) = ReservedBodies
    /\ Len(heap[1].quads) = MAX_PIECE_ROWS * MAX_PIECE_COLS
    /\ ~log.build.reallocated

\* ------------------------------------------------- properties of SpecSpawn

\* every body of the piece p rests, lies at or above the height `floor' and
\* between the horizontal bounds lo and hi
FreshWithin(p, floor, lo, hi) ==
    \A b \in 1..Len(p.bodies) :
       /\ p.bodies[b].prev_position = p.bodies[b].position
       /\ p.bodies[b].position.y >= floor
       /\ lo <= p.bodies[b].position.x
       /\ p.bodies[b].position.x <= hi

\* C26: every body of a freshly spawned piece has prev_position equal to
\* position, a y-coordinate at or above the container height, and an
\* x-coordinate within the container's horizontal walls: [0, width] in the bowl
\* variant (width > 80), [left_wall_x, right_wall_x] in the rectangular
\* variant, for every possible random draw.
C26_SpawnState ==
    /\ width > BLOCK_SIZE * MAX_PIECE_COLS
    /\ (pc = "idle" /\ log.spawned # 0
          => FreshWithin(heap[log.spawned], height * SCALE, 0, width * SCALE))
    /\ (pc = "idle_rect" /\ log.spawned # 0
          => FreshWithin(heap[log.spawned], WINDOW_HEIGHT * SCALE,
                         left_wall_x, right_wall_x))

\* the bowl variant has spawned the piece whose bodies reach furthest right,
\* on the greatest offset
C26_Witness ==
    /\ pc = "idle"
    /\ log.spawned # 0
    /\ \E b \in 1..Len(heap[log.spawned].bodies) :
          heap[log.spawned].bodies[b].position.x = (width - 1 - BLOCK_SIZE) * SCALE
    /\ \E b \in 1..Len(heap[log.spawned].bodies) :
          heap[log.spawned].bodies[b].position.y > height * SCALE

\* the rectangular variant has spawned on the least offset
C26_WitnessRect ==
    /\ pc = "idle_rect"
    /\ log.spawned # 0
    /\ heap[log.spawned].min_pos.x = (2 * BORDER + RECT_SPACING) * SCALE
    /\ heap[log.spawned].min_pos.y = WINDOW_HEIGHT * SCALE

\* -------------------------------------------- properties of SpecDegenerate

\* the edges of the two quads tested, as operator() takes them, that have no
\* length in the heap h
DegenerateEdges(h) ==
    LET edges == QuadEdges(h[1].quads[1], h[2].quads[1])
    IN {e \in 1..Len(edges) : Pos(h, edges[e][1]) = Pos(h, edges[e][2])}

\* separating_axis_test on edge e of the two quads, as the first axis or as a
\* later one, with the push vector pv so far
AxisTest(h, e, first, pv) ==
    LET edges == QuadEdges(h[1].quads[1], h[2].quads[1])
    IN separating_axis_test(h, h[1].quads[1], h[2].quads[1], first,
                            Pos(h, edges[e][1]), Pos(h, edges[e][2]), pv)

\* neither coordinate of v is the outcome of a division by zero
Finite(v) == v.x # NonFinite /\ v.y # NonFinite

\* C30: if the edge an axis is derived from has no length (from = to),
\* normalize() leaves the zero normal as it is, both quads project to the
\* interval [0, 0] and the axis is reported as separating, so that the test
\* returns no collision; the division by normal.length() in the push-vector
\* update is therefore never made with a normal of no length.
C30_DegenerateEdge ==
    pc \in {"tested", "swapped", "collided"} =>
      LET h == log.before
          t0 == h[1].quads[1]
          t1 == h[2].quads[1]
          edges == QuadEdges(t0, t1)
      IN /\ \A e \in DegenerateEdges(h) :
               LET normal == EdgeNormal(Pos(h, edges[e][1]), Pos(h, edges[e][2]))
               IN /\ normal = Vec(0, 0)
                  /\ length(normal) = 0
                  /\ project_quad_to_axis(h, normal, t0) = <<0, 0>>
                  /\ project_quad_to_axis(h, normal, t1) = <<0, 0>>
                  /\ \A first \in BOOLEAN :
                        AxisTest(h, e, first, Vec(SCALE, -SCALE))
                          = [separating |-> TRUE, push_vector |-> Vec(SCALE, -SCALE)]
         /\ (DegenerateEdges(h) # {}
               => /\ ~log.r1.collided
                  /\ ~log.r2.collided
                  /\ pc # "collided" => heap = h)
         /\ Finite(log.r1.push_vector)
         /\ Finite(log.r2.push_vector)
         /\ \A o \in 1..2, b \in 1..4 : Finite(heap[o].bodies[b].position)

\* operator() has reached the axis of an edge of no length after axes that do
\* not separate, the quads overlapping, and has returned false there
C30_Witness ==
    /\ pc = "tested"
    /\ log.r1.axes > 1
    /\ log.r1.axes \in DegenerateEdges(log.before)
    /\ ~log.r1.collided
    /\ log.r1.push_vector # Vec(0, 0)
    /\ Finite(log.r1.push_vector)

\* the edge of no length is the first one tested
C30_WitnessFirst ==
    /\ pc = "tested"
    /\ log.r1.axes = 1
    /\ 1 \in DegenerateEdges(log.before)
    /\ ~log.r1.collided

====
